---- MODULE Spec2Model ----
(***************************************************************************)
(* A model of the chip-8-core interpreter: the instruction decoder          *)
(* (opcode.rs), the countdown timer (timer.rs), the call stack              *)
(* (callstack.rs) and the fetch-decode-execute engine (interpreter.rs).     *)
(*                                                                          *)
(* The interpreter's fields are the variables of the module.  Every method  *)
(* of the interpreter is an operator from an interpreter record `self` to   *)
(* an outcome [self |-> the interpreter afterwards, res |-> what the method *)
(* returned]; the driver's calls (step, and its writes of the public        *)
(* fields key_press and quirks) are the actions.                            *)
(***************************************************************************)
EXTENDS Integers, Sequences, FiniteSets, TLC

VARIABLES
    quirks,              \* Chip8Interpreter.quirks: QuirkFlags (u8 bitset)
    key_press,           \* Chip8Interpreter.key_press: Option<KeyCodes>
    display_buffer,      \* [[u8; RES_X]; RES_Y]
    memory,              \* [u8; MEM_SZ]
    pc,                  \* u16
    v_regs,              \* [u8; REG_COUNT]
    i_reg,               \* u16
    stack,               \* CallStack
    key_await_dest_reg,  \* Option<KeyAwaitOp>
    delay_timer,         \* Timer
    sound_timer,         \* Timer
    is_sound_playing,    \* bool
    platform_adapter,    \* the injected platform capability (the tests' MockPlatform)
    rom,                 \* the program image handed to Chip8Interpreter::new
    new_result,          \* what Chip8Interpreter::new returned
    step_result,         \* what the last call of step returned (None before the first)
    steps,               \* number of step calls made so far
    at_call,             \* pc and key_await_dest_reg when step was last called, and its tick_rate
    overflow_checks,     \* build profile: TRUE when integer overflow panics (debug)
    history              \* what the caller of a CallStack or Timer remembers of its calls

vars == <<quirks, key_press, display_buffer, memory, pc, v_regs, i_reg, stack,
          key_await_dest_reg, delay_timer, sound_timer, is_sound_playing,
          platform_adapter, rom, new_result, step_result, steps, at_call,
          overflow_checks, history>>

----------------------------------------------------------------------------
(* Program constants                                                        *)

RES_Y == 32
RES_X == 64
START_ADDR == 512
STACK_SZ == 16
MEM_SZ == 4096
REG_COUNT == 16
CHAR_TABLE_LEN == 5 * 16

CHAR_TABLE ==
    << 240, 144, 144, 144, 240,    \* "0"
        32,  96,  32,  32, 112,    \* "1"
       240,  16, 240, 128, 240,    \* "2"
       240,  16, 240,  16, 240,    \* "3"
       144, 144, 240,  16,  16,    \* "4"
       240, 128, 240,  16, 240,    \* "5"
       240, 128, 240, 144, 240,    \* "6"
       240,  16,  32,  64,  64,    \* "7"
       240, 144, 240, 144, 240,    \* "8"
       240, 144, 240,  16, 240,    \* "9"
       240, 144, 240, 144, 144,    \* "A"
       224, 144, 224, 144, 224,    \* "B"
       240, 128, 128, 128, 240,    \* "C"
       224, 144, 144, 144, 224,    \* "D"
       240, 128, 240, 128, 240,    \* "E"
       240, 128, 240, 128, 128 >>  \* "F"

\* QuirkFlags bits
QUIRK_NONE == 0
QUIRK_8XY6 == 1
QUIRK_8XYE == 2
QUIRK_FX1E == 4
QUIRK_FX55 == 8
QUIRK_FX65 == 16

U8 == 2 ^ 8
U16 == 2 ^ 16

----------------------------------------------------------------------------
(* Option, Result and the outcome of a method                               *)

None == [tag |-> "None"]
Some(v) == [tag |-> "Some", val |-> v]

Ok(v) == [tag |-> "Ok", val |-> v]
Err(e) == [tag |-> "Err", err |-> e]
\* an arithmetic overflow in a build with overflow checks: the call never returns
Panic == [tag |-> "Panic"]
Unit == <<>>

CallStackEmpty == [name |-> "CallStackEmpty"]
CallStackOverflow == [name |-> "CallStackOverflow"]
InvalidOpcode(w) == [name |-> "InvalidOpcode", instr |-> w]
InvalidRegister == [name |-> "InvalidRegister"]
MemFault == [name |-> "MemFault"]
DisplayFault == [name |-> "DisplayFault"]
NonMonotonicClockValue == [name |-> "NonMonotonicClockValue"]
RomTooLarge == [name |-> "RomTooLarge"]

StackOverflow == [name |-> "StackOverflow"]
StackEmpty == [name |-> "StackEmpty"]

Out(s, r) == [self |-> s, res |-> r]

\* the `?` operator: go on with F on the interpreter left by o when o returned
\* Ok, else return what o returned
Then(o, F(_)) == IF o.res.tag = "Ok" THEN F(o.self) ELSE o

\* the `?` operator on the result of a method that takes &self
Try(s, r, F(_)) == IF r.tag = "Ok" THEN F(r.val) ELSE Out(s, r)

----------------------------------------------------------------------------
(* Fixed-width arithmetic                                                   *)

\* a + b in a type of `width` values: wraps in a build without overflow
\* checks, panics in a build with them
CheckedAdd(a, b, width) ==
    IF a + b >= width
    THEN (IF overflow_checks THEN Panic ELSE Ok((a + b) % width))
    ELSE Ok(a + b)

CheckedMul(a, b, width) ==
    IF a * b >= width
    THEN (IF overflow_checks THEN Panic ELSE Ok((a * b) % width))
    ELSE Ok(a * b)

RECURSIVE BitAnd(_, _)
BitAnd(a, b) ==
    IF a = 0 \/ b = 0 THEN 0
    ELSE (a % 2) * (b % 2) + 2 * BitAnd(a \div 2, b \div 2)

RECURSIVE BitOr(_, _)
BitOr(a, b) ==
    IF a = 0 THEN b
    ELSE IF b = 0 THEN a
    ELSE (IF a % 2 = 1 \/ b % 2 = 1 THEN 1 ELSE 0) + 2 * BitOr(a \div 2, b \div 2)

RECURSIVE BitXor(_, _)
BitXor(a, b) ==
    IF a = 0 THEN b
    ELSE IF b = 0 THEN a
    ELSE ((a + b) % 2) + 2 * BitXor(a \div 2, b \div 2)

----------------------------------------------------------------------------
(* timer.rs                                                                 *)

Timer_new == [start_val |-> 0, current_val |-> 0, count_ticks |-> 0]

\* Timer::set that keeps the ticks counted so far
Timer_set_keeps_count(t, val) == [t EXCEPT !.start_val = val, !.current_val = val]

Timer_set(t, val) == [start_val |-> val, current_val |-> val, count_ticks |-> 0]

\* Timer::tick that decrements a timer at zero (u8 wraps)
Timer_tick_below_zero(t, tick_rate) ==
    LET count == t.count_ticks + 1
    IN  IF 60 * count >= tick_rate
        THEN [t EXCEPT !.current_val = (t.current_val - 1) % U8, !.count_ticks = 0]
        ELSE [t EXCEPT !.count_ticks = count]

\* Timer::tick: the timer afterwards; the value returned is its current_val.
\* count_ticks holds whole numbers only, so count_ticks >= tick_rate / 60.0
\* is 60 * count_ticks >= tick_rate.
Timer_tick(t, tick_rate) ==
    LET count == t.count_ticks + 1
    IN  IF t.current_val > 0 /\ 60 * count >= tick_rate
        THEN [t EXCEPT !.current_val = t.current_val - 1, !.count_ticks = 0]
        ELSE [t EXCEPT !.count_ticks = count]

----------------------------------------------------------------------------
(* callstack.rs                                                             *)

CallStack_new(size) == [arr |-> [i \in 0 .. size - 1 |-> 0], top |-> -1]

CallStack_len(cs) == Cardinality(DOMAIN cs.arr)

is_empty(cs) == cs.top = -1

is_full(cs) == cs.top + 1 = CallStack_len(cs)

\* CallStack::push that overwrites the newest address when full
CallStack_push_overwrites(cs, addr) ==
    IF is_full(cs)
    THEN [stack |-> [cs EXCEPT !.arr[cs.top] = addr], res |-> Ok(Unit)]
    ELSE [stack |-> [arr |-> [cs.arr EXCEPT ![cs.top + 1] = addr], top |-> cs.top + 1],
          res |-> Ok(Unit)]

\* [stack |-> the stack afterwards, res |-> Result<(), CallStackErr>]
CallStack_push(cs, addr) ==
    IF is_full(cs)
    THEN [stack |-> cs, res |-> Err(StackOverflow)]
    ELSE [stack |-> [arr |-> [cs.arr EXCEPT ![cs.top + 1] = addr], top |-> cs.top + 1],
          res |-> Ok(Unit)]

\* CallStack::pop that hands out the oldest address
CallStack_pop_oldest(cs) ==
    IF is_empty(cs)
    THEN [stack |-> cs, res |-> Err(StackEmpty)]
    ELSE [stack |-> [cs EXCEPT !.top = cs.top - 1], res |-> Ok(cs.arr[0])]

\* [stack |-> the stack afterwards, res |-> Result<u16, CallStackErr>]
CallStack_pop(cs) ==
    IF is_empty(cs)
    THEN [stack |-> cs, res |-> Err(StackEmpty)]
    ELSE [stack |-> [cs EXCEPT !.top = cs.top - 1], res |-> Ok(cs.arr[cs.top])]

snapshot(cs) ==
    IF is_empty(cs) THEN None
    ELSE Some([i \in 1 .. cs.top + 1 |-> cs.arr[i - 1]])

----------------------------------------------------------------------------
(* opcode.rs                                                                *)

HexDigits == <<"0", "1", "2", "3", "4", "5", "6", "7",
               "8", "9", "A", "B", "C", "D", "E", "F">>

\* {:X}: upper-case hexadecimal, no padding
RECURSIVE UpperHex(_)
UpperHex(n) ==
    IF n < 16 THEN HexDigits[n + 1]
    ELSE UpperHex(n \div 16) \o HexDigits[(n % 16) + 1]

RECURSIVE ZeroPad(_, _)
ZeroPad(str, width) == IF Len(str) >= width THEN str ELSE ZeroPad("0" \o str, width)

\* {:#0wX}: "0x", then the digits zero-padded to a total width of w
AltHex(n, width) == "0x" \o ZeroPad(UpperHex(n), width - 2)

\* get_n2 with a mask one bit too wide
get_n2_wide(instr) == (BitAnd(7936, instr) \div 256) % U8

get_n2(instr) == (BitAnd(3840, instr) \div 256) % U8

get_n3(instr) == (BitAnd(240, instr) \div 16) % U8

get_n4(instr) == BitAnd(15, instr) % U8

get_nnn(instr) == BitAnd(4095, instr)

\* get_nn with a mask one bit too narrow
get_nn_narrow(instr) == BitAnd(127, instr) % U8

get_nn(instr) == BitAnd(255, instr) % U8

\* contains comparing the bit sets as numbers: a higher flag passes for a lower
contains_at_least(flags, flag) == flags >= flag

contains(flags, flag) == BitAnd(flags, flag) = flag

Decoded(instr, opcode, mnemonic) ==
    [instr |-> instr, opcode |-> opcode, mnemonic |-> mnemonic]

\* the variants of OpCode, with their operands
Op0(name) == [op |-> name, args |-> <<>>]
Op1(name, a) == [op |-> name, args |-> <<a>>]
Op2(name, a, b) == [op |-> name, args |-> <<a, b>>]
Op3(name, a, b, c) == [op |-> name, args |-> <<a, b, c>>]

OpCodeInvalid == Op0("OpCodeInvalid")

DecodedInstruction_new == Decoded(0, OpCodeInvalid, "")

invalid_instruction(instr) == Decoded(instr, OpCodeInvalid, "")

\* the arms of decode that take VX and VY
DecodeXY(instr, name, text) ==
    LET vx_idx == get_n2(instr)
        vy_idx == get_n3(instr)
    IN  Decoded(instr, Op2(name, vx_idx, vy_idx),
                text \o " V" \o UpperHex(vx_idx) \o ", V" \o UpperHex(vy_idx))

\* the arms of decode that take VX and a byte, formatted {:#04X}
DecodeXNN(instr, name, text) ==
    LET vx_idx == get_n2(instr)
        val == get_nn(instr)
    IN  Decoded(instr, Op2(name, vx_idx, val),
                text \o " V" \o UpperHex(vx_idx) \o ", " \o AltHex(val, 4))

\* the arms of decode that take an address, formatted {:#05X}
DecodeNNN(instr, name, text) ==
    LET addr == get_nnn(instr)
    IN  Decoded(instr, Op1(name, addr), text \o AltHex(addr, 5))

\* the arms of decode that take VX alone
DecodeX(instr, name, pre, post) ==
    LET vx_idx == get_n2(instr)
    IN  Decoded(instr, Op1(name, vx_idx), pre \o UpperHex(vx_idx) \o post)

\* the 8XY6 and 8XYE arms taking the register to shift, VY under the quirk,
\* as their first operand
DecodeShift_by_source(instr, name, text, quirk_flags, flag) ==
    LET vx_idx == get_n2(instr)
        vy_idx == get_n3(instr)
        mnemonic == IF contains(quirk_flags, flag)
                    THEN text \o " V" \o UpperHex(vx_idx) \o ", V" \o UpperHex(vy_idx)
                    ELSE text \o " V" \o UpperHex(vx_idx)
    IN  IF contains(quirk_flags, flag)
        THEN Decoded(instr, Op2(name, vy_idx, vx_idx), mnemonic)
        ELSE Decoded(instr, Op2(name, vx_idx, vy_idx), mnemonic)

\* the 8XY6 and 8XYE arms: the mnemonic names VY only under the quirk
DecodeShift(instr, name, text, quirk_flags, flag) ==
    LET vx_idx == get_n2(instr)
        vy_idx == get_n3(instr)
        mnemonic == IF contains(quirk_flags, flag)
                    THEN text \o " V" \o UpperHex(vx_idx) \o ", V" \o UpperHex(vy_idx)
                    ELSE text \o " V" \o UpperHex(vx_idx)
    IN  Decoded(instr, Op2(name, vx_idx, vy_idx), mnemonic)

decode(instr, quirk_flags) ==
    LET prefix == instr \div 4096
    IN  CASE prefix = 0 ->
               (CASE instr = 224 -> Decoded(instr, Op0("OpCode00e0"), "CLS")
                  [] instr = 238 -> Decoded(instr, Op0("OpCode00ee"), "RET")
                  [] OTHER -> invalid_instruction(instr))
          [] prefix = 1 -> DecodeNNN(instr, "OpCode1nnn", "JP ")
          [] prefix = 2 -> DecodeNNN(instr, "OpCode2nnn", "CALL ")
          [] prefix = 3 -> DecodeXNN(instr, "OpCode3xnn", "SE")
          [] prefix = 4 -> DecodeXNN(instr, "OpCode4xnn", "SNE")
          [] prefix = 5 ->
               (CASE get_n4(instr) = 0 -> DecodeXY(instr, "OpCode5xy0", "SE")
                  [] OTHER -> invalid_instruction(instr))
          [] prefix = 6 -> DecodeXNN(instr, "OpCode6xnn", "LD")
          [] prefix = 7 -> DecodeXNN(instr, "OpCode7xnn", "ADD")
          [] prefix = 8 ->
               (CASE get_n4(instr) = 0 -> DecodeXY(instr, "OpCode8xy0", "LD")
                  [] get_n4(instr) = 1 -> DecodeXY(instr, "OpCode8xy1", "OR")
                  [] get_n4(instr) = 2 -> DecodeXY(instr, "OpCode8xy2", "AND")
                  [] get_n4(instr) = 3 -> DecodeXY(instr, "OpCode8xy3", "XOR")
                  [] get_n4(instr) = 4 -> DecodeXY(instr, "OpCode8xy4", "ADD")
                  [] get_n4(instr) = 5 -> DecodeXY(instr, "OpCode8xy5", "SUB")
                  [] get_n4(instr) = 6 ->
                       DecodeShift(instr, "OpCode8xy6", "SHR", quirk_flags, QUIRK_8XY6)
                  [] get_n4(instr) = 7 -> DecodeXY(instr, "OpCode8xy7", "SUBN")
                  [] get_n4(instr) = 14 ->
                       DecodeShift(instr, "OpCode8xye", "SHL", quirk_flags, QUIRK_8XYE)
                  [] OTHER -> invalid_instruction(instr))
          [] prefix = 9 ->
               (CASE get_n4(instr) = 0 -> DecodeXY(instr, "OpCode9xy0", "SNE")
                  [] OTHER -> invalid_instruction(instr))
          [] prefix = 10 -> DecodeNNN(instr, "OpCodeAnnn", "LD I ")
          [] prefix = 11 -> DecodeNNN(instr, "OpCodeBnnn", "JP V0, ")
          [] prefix = 12 ->
               LET vx_idx == get_n2(instr)
                   mask == get_nn(instr)
               IN  Decoded(instr, Op2("OpCodeCxnn", vx_idx, mask),
                           "RND V" \o UpperHex(vx_idx) \o ", " \o AltHex(mask, 2))
          [] prefix = 13 ->
               LET vx_idx == get_n2(instr)
                   vy_idx == get_n3(instr)
                   count == get_n4(instr)
               IN  Decoded(instr, Op3("OpCodeDxyn", vx_idx, vy_idx, count),
                           "DRW V" \o UpperHex(vx_idx) \o ", V" \o UpperHex(vy_idx)
                               \o ", " \o AltHex(count, 1))
          [] prefix = 14 ->
               (CASE get_nn(instr) = 158 -> DecodeX(instr, "OpCodeEx9e", "SKP V", "")
                  [] get_nn(instr) = 161 -> DecodeX(instr, "OpCodeExa1", "SKNP V", "")
                  [] OTHER -> invalid_instruction(instr))
          [] OTHER ->
               (CASE get_nn(instr) = 7 -> DecodeX(instr, "OpCodeFx07", "LD V", ", DT")
                  [] get_nn(instr) = 10 -> DecodeX(instr, "OpCodeFx0a", "LD V", ", K")
                  [] get_nn(instr) = 21 -> DecodeX(instr, "OpCodeFx15", "LD DT, V", "")
                  [] get_nn(instr) = 24 -> DecodeX(instr, "OpCodeFx18", "LD ST, V", "")
                  [] get_nn(instr) = 30 -> DecodeX(instr, "OpCodeFx1e", "ADD I, V", "")
                  [] get_nn(instr) = 41 -> DecodeX(instr, "OpCodeFx29", "LD F, V", "")
                  [] get_nn(instr) = 51 -> DecodeX(instr, "OpCodeFx33", "LD B, V", "")
                  [] get_nn(instr) = 85 -> DecodeX(instr, "OpCodeFx55", "LD [I], V", "")
                  [] get_nn(instr) = 101 -> DecodeX(instr, "OpCodeFx65", "LD V", ", [I]")
                  [] OTHER -> invalid_instruction(instr))

----------------------------------------------------------------------------
(* interpreter.rs: construction and the accessors                           *)

from_stack_err(stack_err) ==
    IF stack_err = StackOverflow THEN CallStackOverflow ELSE CallStackEmpty

KeyAwaitOp(reg) == [dest_v_reg |-> reg]

\* the tests' MockPlatform: it counts the signals it is sent and hands out
\* random_val
MockPlatform_new == [random_val |-> 0, play_count |-> 0, pause_count |-> 0]

play_sound(p) == [p EXCEPT !.play_count = p.play_count + 1]

pause_sound(p) == [p EXCEPT !.pause_count = p.pause_count + 1]

get_random_val(p) == p.random_val

\* the interpreter Chip8Interpreter::new builds when the image fits: the
\* struct literal, then the two copy loops
Chip8Interpreter_built(adapter, image) ==
    [quirks |-> QUIRK_NONE,
     key_press |-> None,
     platform_adapter |-> adapter,
     memory |-> [a \in 0 .. MEM_SZ - 1 |->
                   IF a >= START_ADDR /\ a < START_ADDR + Len(image)
                   THEN image[a - START_ADDR + 1]
                   ELSE IF a < Len(CHAR_TABLE) THEN CHAR_TABLE[a + 1]
                   ELSE 0],
     display_buffer |-> [y \in 0 .. RES_Y - 1 |-> [x \in 0 .. RES_X - 1 |-> 0]],
     pc |-> START_ADDR,
     v_regs |-> [r \in 0 .. 15 |-> 0],
     i_reg |-> 0,
     stack |-> CallStack_new(STACK_SZ),
     key_await_dest_reg |-> None,
     delay_timer |-> Timer_new,
     sound_timer |-> Timer_new,
     is_sound_playing |-> FALSE]

\* Chip8Interpreter::new that accepts an image ending exactly at MEM_SZ
Chip8Interpreter_new_gt(adapter, image) ==
    IF START_ADDR + Len(image) > MEM_SZ
    THEN Err(RomTooLarge)
    ELSE Ok(Chip8Interpreter_built(adapter, image))

\* Chip8Interpreter::new that keeps two bytes free at the end of memory
Chip8Interpreter_new_strict(adapter, image) ==
    IF START_ADDR + Len(image) >= MEM_SZ - 1
    THEN Err(RomTooLarge)
    ELSE Ok(Chip8Interpreter_built(adapter, image))

\* Chip8Interpreter::new that copies the image from START_ADDR + 1 on
Chip8Interpreter_new_shifted(adapter, image) ==
    IF START_ADDR + Len(image) >= MEM_SZ
    THEN Err(RomTooLarge)
    ELSE LET built == Chip8Interpreter_built(adapter, image)
         IN  Ok([built EXCEPT !.memory =
                    [a \in 0 .. MEM_SZ - 1 |->
                       IF a > START_ADDR /\ a <= START_ADDR + Len(image)
                       THEN image[a - START_ADDR]
                       ELSE IF a < Len(CHAR_TABLE) THEN CHAR_TABLE[a + 1]
                       ELSE 0]])

\* Chip8Interpreter::new: Result<Self, InterpreterErr>
Chip8Interpreter_new(adapter, image) ==
    LET rom_len == Len(image)
    IN  IF START_ADDR + rom_len >= MEM_SZ
        THEN Err(RomTooLarge)
        ELSE Ok(Chip8Interpreter_built(adapter, image))

read_mem(self, addr) ==
    IF addr >= MEM_SZ THEN Err(MemFault) ELSE Ok(self.memory[addr])

write_mem(self, addr, val) ==
    IF addr >= MEM_SZ THEN Out(self, Err(MemFault))
    ELSE Out([self EXCEPT !.memory[addr] = val], Ok(Unit))

write_v_reg(self, reg_idx, val) ==
    IF reg_idx >= REG_COUNT THEN Out(self, Err(InvalidRegister))
    ELSE Out([self EXCEPT !.v_regs[reg_idx] = val], Ok(Unit))

read_v_reg(self, reg_idx) ==
    IF reg_idx >= REG_COUNT THEN Err(InvalidRegister) ELSE Ok(self.v_regs[reg_idx])

\* draw reporting every set pixel the sprite's cell covers, whatever the bit
draw_flags_covered_pixels(self, x, y, val) ==
    LET x_idx == x % RES_X
        y_idx == y % RES_Y
        original_val == self.display_buffer[y_idx][x_idx]
        new_val == BitXor(original_val, val)
    IN  [self |-> [self EXCEPT !.display_buffer[y_idx][x_idx] = new_val],
         off |-> (original_val = 1)]

\* draw that sets pixels (OR) instead of toggling them
draw_ors_pixel(self, x, y, val) ==
    LET x_idx == x % RES_X
        y_idx == y % RES_Y
        original_val == self.display_buffer[y_idx][x_idx]
        new_val == BitOr(original_val, val)
    IN  [self |-> [self EXCEPT !.display_buffer[y_idx][x_idx] = new_val],
         off |-> (val = original_val /\ val = 1)]

\* [self |-> the interpreter afterwards, off |-> whether the pixel was toggled off]
draw(self, x, y, val) ==
    LET x_idx == x % RES_X
        y_idx == y % RES_Y
        original_val == self.display_buffer[y_idx][x_idx]
        new_val == BitXor(original_val, val)
    IN  [self |-> [self EXCEPT !.display_buffer[y_idx][x_idx] = new_val],
         off |-> (val = original_val /\ val = 1)]

start_delay_timer(self, start_val) ==
    [self EXCEPT !.delay_timer = Timer_set(self.delay_timer, start_val)]

start_sound_timer(self, start_val) ==
    [self EXCEPT !.sound_timer = Timer_set(self.sound_timer, start_val),
                 !.platform_adapter = play_sound(self.platform_adapter),
                 !.is_sound_playing = TRUE]

\* check_sound_timer that signals pause_sound whether or not sound plays
check_sound_timer_pauses_idle(self, tick_rate) ==
    LET ticked == Timer_tick(self.sound_timer, tick_rate)
        timer_val == ticked.current_val
        s1 == [self EXCEPT !.sound_timer = ticked]
    IN  IF timer_val = 0
        THEN Out([s1 EXCEPT !.platform_adapter = pause_sound(s1.platform_adapter),
                            !.is_sound_playing = FALSE], Ok(Unit))
        ELSE Out(s1, Ok(Unit))

\* check_sound_timer that looks at the sound timer without ticking it
check_sound_timer_no_tick(self, tick_rate) ==
    IF self.sound_timer.current_val = 0 /\ self.is_sound_playing
    THEN Out([self EXCEPT !.platform_adapter = pause_sound(self.platform_adapter),
                          !.is_sound_playing = FALSE], Ok(Unit))
    ELSE Out(self, Ok(Unit))

check_sound_timer(self, tick_rate) ==
    LET ticked == Timer_tick(self.sound_timer, tick_rate)
        timer_val == ticked.current_val
        s1 == [self EXCEPT !.sound_timer = ticked]
    IN  IF timer_val = 0 /\ s1.is_sound_playing
        THEN Out([s1 EXCEPT !.platform_adapter = pause_sound(s1.platform_adapter),
                            !.is_sound_playing = FALSE], Ok(Unit))
        ELSE Out(s1, Ok(Unit))

----------------------------------------------------------------------------
(* interpreter.rs: the instruction handlers                                 *)

\* self.pc += 2
skip_next(self) ==
    LET sum == CheckedAdd(self.pc, 2, U16)
    IN  IF sum.tag = "Ok" THEN Out([self EXCEPT !.pc = sum.val], Ok(Unit))
        ELSE Out(self, Panic)

\* the tail shared by the handlers that report a flag in VF
write_flag(self, flag) ==
    IF flag THEN write_v_reg(self, 15, 1) ELSE write_v_reg(self, 15, 0)

execute_00ee(self) ==
    LET popped == CallStack_pop(self.stack)
    IN  IF popped.res.tag = "Ok"
        THEN Out([self EXCEPT !.stack = popped.stack, !.pc = popped.res.val], Ok(Unit))
        ELSE Out(self, Err(from_stack_err(popped.res.err)))

\* execute_00e0 with the loop over x one short: the last column is kept
execute_00e0_keeps_last_column(self) ==
    Out([self EXCEPT !.display_buffer =
             [y \in 0 .. RES_Y - 1 |-> [x \in 0 .. RES_X - 1 |->
                 IF x < RES_X - 1 THEN 0 ELSE self.display_buffer[y][x]]]], Ok(Unit))

execute_00e0(self) ==
    Out([self EXCEPT !.display_buffer =
             [y \in 0 .. RES_Y - 1 |-> [x \in 0 .. RES_X - 1 |-> 0]]], Ok(Unit))

\* execute_1nnn as a jump to NNN + V0
execute_1nnn_adds_v0(self, addr) ==
    Try(self, read_v_reg(self, 0), LAMBDA v0_val :
        Out([self EXCEPT !.pc = addr + v0_val], Ok(Unit)))

execute_1nnn(self, addr) == Out([self EXCEPT !.pc = addr], Ok(Unit))

\* execute_2nnn that pushes the address of the call itself
execute_2nnn_pushes_call_addr(self, addr) ==
    LET pushed == CallStack_push(self.stack, self.pc - 2)
    IN  IF pushed.res.tag = "Ok"
        THEN Out([self EXCEPT !.stack = pushed.stack, !.pc = addr], Ok(Unit))
        ELSE Out(self, Err(from_stack_err(pushed.res.err)))

execute_2nnn(self, addr) ==
    LET pushed == CallStack_push(self.stack, self.pc)
    IN  IF pushed.res.tag = "Ok"
        THEN Out([self EXCEPT !.stack = pushed.stack, !.pc = addr], Ok(Unit))
        ELSE Out(self, Err(from_stack_err(pushed.res.err)))

execute_3xnn(self, vx_idx, val) ==
    Try(self, read_v_reg(self, vx_idx), LAMBDA vx_val :
        IF vx_val = val THEN skip_next(self) ELSE Out(self, Ok(Unit)))

\* execute_4xnn with the test of execute_3xnn
execute_4xnn_skips_on_equal(self, vx_idx, val) ==
    Try(self, read_v_reg(self, vx_idx), LAMBDA vx_val :
        IF vx_val = val THEN skip_next(self) ELSE Out(self, Ok(Unit)))

execute_4xnn(self, vx_idx, val) ==
    Try(self, read_v_reg(self, vx_idx), LAMBDA vx_val :
        IF vx_val # val THEN skip_next(self) ELSE Out(self, Ok(Unit)))

execute_5xy0(self, vx_idx, vy_idx) ==
    Try(self, read_v_reg(self, vx_idx), LAMBDA vx_val :
    Try(self, read_v_reg(self, vy_idx), LAMBDA vy_val :
        IF vx_val = vy_val THEN skip_next(self) ELSE Out(self, Ok(Unit))))

execute_6xnn(self, vx_idx, val) == write_v_reg(self, vx_idx, val)

\* execute_7xnn as an addition that reports its carry in VF
execute_7xnn_sets_carry(self, vx_idx, val) ==
    Try(self, read_v_reg(self, vx_idx), LAMBDA vx_val :
        Then(write_v_reg(self, vx_idx, (vx_val + val) % U8), LAMBDA s1 :
             write_flag(s1, vx_val + val >= U8)))

execute_7xnn(self, vx_idx, val) ==
    Try(self, read_v_reg(self, vx_idx), LAMBDA vx_val :
        write_v_reg(self, vx_idx, (vx_val + val) % U8))

execute_8xy0(self, vx_idx, vy_idx) ==
    Try(self, read_v_reg(self, vy_idx), LAMBDA vy_val :
        write_v_reg(self, vx_idx, vy_val))

execute_8xy1(self, vx_idx, vy_idx) ==
    Try(self, read_v_reg(self, vx_idx), LAMBDA vx_val :
    Try(self, read_v_reg(self, vy_idx), LAMBDA vy_val :
        write_v_reg(self, vx_idx, BitOr(vx_val, vy_val))))

execute_8xy2(self, vx_idx, vy_idx) ==
    Try(self, read_v_reg(self, vx_idx), LAMBDA vx_val :
    Try(self, read_v_reg(self, vy_idx), LAMBDA vy_val :
        write_v_reg(self, vx_idx, BitAnd(vx_val, vy_val))))

execute_8xy3(self, vx_idx, vy_idx) ==
    Try(self, read_v_reg(self, vx_idx), LAMBDA vx_val :
    Try(self, read_v_reg(self, vy_idx), LAMBDA vy_val :
        write_v_reg(self, vx_idx, BitXor(vx_val, vy_val))))

\* execute_8xy4 that reports a carry from 0xFF on
execute_8xy4_carry_at_255(self, vx_idx, vy_idx) ==
    Try(self, read_v_reg(self, vx_idx), LAMBDA vx_val :
    Try(self, read_v_reg(self, vy_idx), LAMBDA vy_val :
        LET result == (vx_val + vy_val) % U8
            did_overflow == vx_val + vy_val >= U8 - 1
        IN  Then(write_v_reg(self, vx_idx, result), LAMBDA s1 :
                 write_flag(s1, did_overflow))))

execute_8xy4(self, vx_idx, vy_idx) ==
    Try(self, read_v_reg(self, vx_idx), LAMBDA vx_val :
    Try(self, read_v_reg(self, vy_idx), LAMBDA vy_val :
        LET result == (vx_val + vy_val) % U8
            did_overflow == vx_val + vy_val >= U8
        IN  Then(write_v_reg(self, vx_idx, result), LAMBDA s1 :
                 write_flag(s1, did_overflow))))

\* execute_8xy5 with the flag of an addition: 1 when the subtraction borrows
execute_8xy5_borrow_flag(self, vx_idx, vy_idx) ==
    Try(self, read_v_reg(self, vx_idx), LAMBDA vx_val :
    Try(self, read_v_reg(self, vy_idx), LAMBDA vy_val :
        LET result == (vx_val - vy_val) % U8
            did_overflow == vx_val < vy_val
        IN  Then(write_v_reg(self, vx_idx, result), LAMBDA s1 :
                 write_flag(s1, did_overflow))))

execute_8xy5(self, vx_idx, vy_idx) ==
    Try(self, read_v_reg(self, vx_idx), LAMBDA vx_val :
    Try(self, read_v_reg(self, vy_idx), LAMBDA vy_val :
        LET result == (vx_val - vy_val) % U8
            did_overflow == vx_val < vy_val
        IN  Then(write_v_reg(self, vx_idx, result), LAMBDA s1 :
                 write_flag(s1, ~did_overflow))))

\* shift right of `val`, the bit shifted out into VF first, the result into VX
shift_right_into(self, vx_idx, val) ==
    LET lsb == BitAnd(1, val)
    IN  Then(write_v_reg(self, 15, lsb), LAMBDA s1 :
             write_v_reg(s1, vx_idx, val \div 2))

execute_8xy6(self, vx_idx) ==
    Try(self, read_v_reg(self, vx_idx), LAMBDA val :
        shift_right_into(self, vx_idx, val))

execute_8xy6_quirk_mode(self, vx_idx, vy_idx) ==
    Try(self, read_v_reg(self, vy_idx), LAMBDA val :
        shift_right_into(self, vx_idx, val))

execute_8xy7(self, vx_idx, vy_idx) ==
    Try(self, read_v_reg(self, vx_idx), LAMBDA vx_val :
    Try(self, read_v_reg(self, vy_idx), LAMBDA vy_val :
        LET result == (vy_val - vx_val) % U8
            did_overflow == vy_val < vx_val
        IN  Then(write_flag(self, ~did_overflow), LAMBDA s1 :
                 write_v_reg(s1, vx_idx, result))))

\* shift left of `val`, the bit shifted out into VF first, the result into VX
shift_left_into(self, vx_idx, val) ==
    LET msb == val \div 128
    IN  Then(write_v_reg(self, 15, msb), LAMBDA s1 :
             write_v_reg(s1, vx_idx, (val * 2) % U8))

execute_8xye(self, vx_idx) ==
    Try(self, read_v_reg(self, vx_idx), LAMBDA val :
        shift_left_into(self, vx_idx, val))

\* execute_8xye_quirk_mode shifting VX, as the handler of the quirk-free mode
execute_8xye_quirk_mode_shifts_vx(self, vx_idx, vy_idx) ==
    Try(self, read_v_reg(self, vx_idx), LAMBDA val :
        shift_left_into(self, vx_idx, val))

execute_8xye_quirk_mode(self, vx_idx, vy_idx) ==
    Try(self, read_v_reg(self, vy_idx), LAMBDA val :
        shift_left_into(self, vx_idx, val))

execute_9xy0(self, vx_idx, vy_idx) ==
    Try(self, read_v_reg(self, vx_idx), LAMBDA vx_val :
    Try(self, read_v_reg(self, vy_idx), LAMBDA vy_val :
        IF vx_val # vy_val THEN skip_next(self) ELSE Out(self, Ok(Unit))))

execute_annn(self, addr) == Out([self EXCEPT !.i_reg = addr], Ok(Unit))

execute_bnnn(self, addr) ==
    Try(self, read_v_reg(self, 0), LAMBDA v0_val :
        LET sum == CheckedAdd(addr, v0_val, U16)
        IN  IF sum.tag = "Ok" THEN Out([self EXCEPT !.i_reg = sum.val], Ok(Unit))
            ELSE Out(self, Panic))

execute_cxnn(self, vx_idx, mask) ==
    LET rand_val == get_random_val(self.platform_adapter)
    IN  write_v_reg(self, vx_idx, BitAnd(rand_val, mask))

\* bit k (7 = most significant) of a sprite byte
sprite_bit(sprite_data, k) == BitAnd(sprite_data \div (2 ^ k), 1)

\* the eight draw calls of one sprite line, from column offset `col` on;
\* o is [self, res, off]: the interpreter, Ok or Panic, and did_toggle_pixel_off
RECURSIVE draw_line(_, _, _, _, _)
draw_line(o, x_start, y, sprite_data, col) ==
    IF col > 7 THEN o
    ELSE LET x == CheckedAdd(x_start, col, U8)
         IN  IF x.tag # "Ok" THEN [o EXCEPT !.res = Panic]
             ELSE LET d == draw(o.self, x.val, y, sprite_bit(sprite_data, 7 - col))
                  IN  draw_line([self |-> d.self, res |-> o.res, off |-> o.off \/ d.off],
                                x_start, y, sprite_data, col + 1)

\* the loop of execute_dxyn over line_num in 0..count
RECURSIVE draw_lines(_, _, _, _, _, _)
draw_lines(o, x_start, y_start, addr, line_num, count) ==
    IF line_num >= count THEN o
    ELSE LET a == CheckedAdd(addr, line_num, U16)
         IN  IF a.tag # "Ok" THEN [o EXCEPT !.res = Panic]
             ELSE LET sprite_data == read_mem(o.self, a.val)
                  IN  IF sprite_data.tag # "Ok" THEN [o EXCEPT !.res = sprite_data]
                      ELSE LET y == CheckedAdd(y_start, line_num, U8)
                           IN  IF y.tag # "Ok" THEN [o EXCEPT !.res = Panic]
                               ELSE LET l == draw_line(o, x_start, y.val, sprite_data.val, 0)
                                    IN  IF l.res.tag # "Ok" THEN l
                                        ELSE draw_lines(l, x_start, y_start, addr,
                                                        line_num + 1, count)

execute_dxyn(self, vx_idx, vy_idx, count) ==
    Try(self, read_v_reg(self, vx_idx), LAMBDA x_start :
    Try(self, read_v_reg(self, vy_idx), LAMBDA y_start :
        LET addr == self.i_reg
            l == draw_lines([self |-> self, res |-> Ok(Unit), off |-> FALSE],
                            x_start, y_start, addr, 0, count)
        IN  IF l.res.tag # "Ok" THEN Out(l.self, l.res)
            ELSE write_flag(l.self, l.off)))

execute_ex9e(self, vx_idx) ==
    Try(self, read_v_reg(self, vx_idx), LAMBDA vx_val :
        IF self.key_press.tag = "Some" /\ self.key_press.val = vx_val
        THEN skip_next(self)
        ELSE Out(self, Ok(Unit)))

execute_exa1(self, vx_idx) ==
    Try(self, read_v_reg(self, vx_idx), LAMBDA vx_val :
        IF self.key_press.tag = "Some" /\ self.key_press.val # vx_val
        THEN skip_next(self)
        ELSE Out(self, Ok(Unit)))

execute_fx07(self, vx_idx) ==
    LET ticked == Timer_tick(self.delay_timer, 100)
        delay_value == ticked.current_val
    IN  write_v_reg([self EXCEPT !.delay_timer = ticked], vx_idx, delay_value)

\* execute_fx0a that always names V0 as the destination
execute_fx0a_into_v0(self, vx_idx) ==
    Out([self EXCEPT !.key_await_dest_reg = Some(KeyAwaitOp(0))], Ok(Unit))

execute_fx0a(self, vx_idx) ==
    Out([self EXCEPT !.key_await_dest_reg = Some(KeyAwaitOp(vx_idx))], Ok(Unit))

execute_fx15(self, vx_idx) ==
    Try(self, read_v_reg(self, vx_idx), LAMBDA val :
        Out(start_delay_timer(self, val), Ok(Unit)))

execute_fx18(self, vx_idx) ==
    Try(self, read_v_reg(self, vx_idx), LAMBDA val :
        Out(start_sound_timer(self, val), Ok(Unit)))

\* execute_fx1e with an index register that stops at 0xFFFF instead of wrapping
execute_fx1e_saturating(self, vx_idx) ==
    Try(self, read_v_reg(self, vx_idx), LAMBDA val :
        Out([self EXCEPT !.i_reg = IF self.i_reg + val >= U16 THEN U16 - 1
                                   ELSE self.i_reg + val], Ok(Unit)))

execute_fx1e(self, vx_idx) ==
    Try(self, read_v_reg(self, vx_idx), LAMBDA val :
        Out([self EXCEPT !.i_reg = (self.i_reg + val) % U16], Ok(Unit)))

execute_fx1e_quirk_mode(self, vx_idx) ==
    Try(self, read_v_reg(self, vx_idx), LAMBDA val :
        LET sum == (self.i_reg + val) % U16
            did_overflow == self.i_reg + val >= U16
        IN  write_flag([self EXCEPT !.i_reg = sum], did_overflow))

execute_fx29(self, vx_idx) ==
    Try(self, read_v_reg(self, vx_idx), LAMBDA val :
        LET product == CheckedMul(val, 5, U8)
        IN  IF product.tag = "Ok" THEN Out([self EXCEPT !.i_reg = product.val], Ok(Unit))
            ELSE Out(self, Panic))

\* write_mem(self.i_reg + offset, val)
write_mem_at(self, offset, val) ==
    LET a == CheckedAdd(self.i_reg, offset, U16)
    IN  IF a.tag = "Ok" THEN write_mem(self, a.val, val) ELSE Out(self, Panic)

\* execute_fx33 storing val / 10 as the middle digit, the hundreds left in
execute_fx33_tens_with_hundreds(self, vx_idx) ==
    Try(self, read_v_reg(self, vx_idx), LAMBDA val :
        LET hundreds_place == val \div 100
            tens_place == val \div 10
            ones_place == val % 10
        IN  Then(write_mem(self, self.i_reg, hundreds_place), LAMBDA s1 :
            Then(write_mem_at(s1, 1, tens_place), LAMBDA s2 :
                 write_mem_at(s2, 2, ones_place))))

execute_fx33(self, vx_idx) ==
    Try(self, read_v_reg(self, vx_idx), LAMBDA val :
        LET hundreds_place == val \div 100
            tens_place == (val \div 10) % 10
            ones_place == val % 10
        IN  Then(write_mem(self, self.i_reg, hundreds_place), LAMBDA s1 :
            Then(write_mem_at(s1, 1, tens_place), LAMBDA s2 :
                 write_mem_at(s2, 2, ones_place))))

\* the loop of execute_fx55 over x in 0..vx_idx, VX itself left out
RECURSIVE store_regs_exclusive(_, _, _)
store_regs_exclusive(self, x, vx_idx) ==
    IF x >= vx_idx THEN Out(self, Ok(Unit))
    ELSE Try(self, read_v_reg(self, x), LAMBDA v_reg_val :
             Then(write_mem_at(self, x, v_reg_val), LAMBDA s1 :
                  store_regs_exclusive(s1, x + 1, vx_idx)))

\* the loop of execute_fx55 over x in 0..=vx_idx
RECURSIVE store_regs(_, _, _)
store_regs(self, x, vx_idx) ==
    IF x > vx_idx THEN Out(self, Ok(Unit))
    ELSE Try(self, read_v_reg(self, x), LAMBDA v_reg_val :
             Then(write_mem_at(self, x, v_reg_val), LAMBDA s1 :
                  store_regs(s1, x + 1, vx_idx)))

\* the loop of execute_fx65 with the whole range validated before the first
\* register is loaded
RECURSIVE load_regs_validated_first(_, _, _)
load_regs_validated_first(self, x, vx_idx) ==
    IF self.i_reg + vx_idx >= MEM_SZ THEN Out(self, Err(MemFault))
    ELSE IF x > vx_idx THEN Out(self, Ok(Unit))
    ELSE LET a == CheckedAdd(self.i_reg, x, U16)
         IN  IF a.tag # "Ok" THEN Out(self, Panic)
             ELSE Try(self, read_mem(self, a.val), LAMBDA mem_val :
                      Then(write_v_reg(self, x, mem_val), LAMBDA s1 :
                           load_regs_validated_first(s1, x + 1, vx_idx)))

\* the loop of execute_fx65 over x in 0..=vx_idx
RECURSIVE load_regs(_, _, _)
load_regs(self, x, vx_idx) ==
    IF x > vx_idx THEN Out(self, Ok(Unit))
    ELSE LET a == CheckedAdd(self.i_reg, x, U16)
         IN  IF a.tag # "Ok" THEN Out(self, Panic)
             ELSE Try(self, read_mem(self, a.val), LAMBDA mem_val :
                      Then(write_v_reg(self, x, mem_val), LAMBDA s1 :
                           load_regs(s1, x + 1, vx_idx)))

\* self.i_reg += vx_idx as u16 + 1
advance_i_reg(self, vx_idx) ==
    LET sum == CheckedAdd(self.i_reg, vx_idx + 1, U16)
    IN  IF sum.tag = "Ok" THEN Out([self EXCEPT !.i_reg = sum.val], Ok(Unit))
        ELSE Out(self, Panic)

execute_fx55(self, vx_idx) == store_regs(self, 0, vx_idx)

execute_fx55_quirk_mode(self, vx_idx) ==
    Then(store_regs(self, 0, vx_idx), LAMBDA s1 : advance_i_reg(s1, vx_idx))

execute_fx65(self, vx_idx) == load_regs(self, 0, vx_idx)

execute_fx65_quirk_mode(self, vx_idx) ==
    Then(load_regs(self, 0, vx_idx), LAMBDA s1 : advance_i_reg(s1, vx_idx))

----------------------------------------------------------------------------
(* interpreter.rs: step                                                     *)

\* is_awaiting_key_press that reads the key but leaves the rest to the next
\* call: the caller fetches nothing in the call that reads the key
is_awaiting_key_press_defers(self) ==
    IF self.key_await_dest_reg.tag = "None" THEN Out(self, Ok(FALSE))
    ELSE IF self.key_press.tag = "None" THEN Out(self, Ok(TRUE))
    ELSE Then(write_v_reg(self, self.key_await_dest_reg.val.dest_v_reg,
                          self.key_press.val),
              LAMBDA s1 : Out([s1 EXCEPT !.key_await_dest_reg = None], Ok(TRUE)))

\* is_awaiting_key_press that forgets to clear the latch
is_awaiting_key_press_keeps_latch(self) ==
    IF self.key_await_dest_reg.tag = "None" THEN Out(self, Ok(FALSE))
    ELSE IF self.key_press.tag = "None" THEN Out(self, Ok(TRUE))
    ELSE Then(write_v_reg(self, self.key_await_dest_reg.val.dest_v_reg,
                          self.key_press.val),
              LAMBDA s1 : Out(s1, Ok(FALSE)))

\* is_awaiting_key_press with the wait dropped: no key, no waiting
is_awaiting_key_press_no_wait(self) ==
    IF self.key_await_dest_reg.tag = "None" THEN Out(self, Ok(FALSE))
    ELSE IF self.key_press.tag = "None" THEN Out(self, Ok(FALSE))
    ELSE Then(write_v_reg(self, self.key_await_dest_reg.val.dest_v_reg,
                          self.key_press.val),
              LAMBDA s1 : Out([s1 EXCEPT !.key_await_dest_reg = None], Ok(FALSE)))

\* [self, res |-> Result<bool, InterpreterErr>]
is_awaiting_key_press(self) ==
    IF self.key_await_dest_reg.tag = "None" THEN Out(self, Ok(FALSE))
    ELSE IF self.key_press.tag = "None" THEN Out(self, Ok(TRUE))
    ELSE Then(write_v_reg(self, self.key_await_dest_reg.val.dest_v_reg,
                          self.key_press.val),
              LAMBDA s1 : Out([s1 EXCEPT !.key_await_dest_reg = None], Ok(FALSE)))

\* fetch_next_instruction that puts the first byte read in the low half
fetch_next_instruction_little_endian(self) ==
    Try(self, read_mem(self, self.pc), LAMBDA hi :
        LET next == CheckedAdd(self.pc, 1, U16)
        IN  IF next.tag # "Ok" THEN Out(self, Panic)
            ELSE Try(self, read_mem(self, next.val), LAMBDA lo :
                     LET moved == skip_next(self)
                         instr == BitOr((lo * 256) % U16, hi)
                     IN  IF moved.res.tag # "Ok" THEN moved
                         ELSE Out(moved.self, Ok(decode(instr, moved.self.quirks)))))

\* fetch_next_instruction that moves pc before it reads the second byte
fetch_next_instruction_moves_first(self) ==
    Try(self, read_mem(self, self.pc), LAMBDA hi :
        LET next == CheckedAdd(self.pc, 1, U16)
            moved == skip_next(self)
        IN  IF next.tag # "Ok" THEN Out(self, Panic)
            ELSE IF moved.res.tag # "Ok" THEN moved
            ELSE Try(moved.self, read_mem(self, next.val), LAMBDA lo :
                     LET instr == BitOr((hi * 256) % U16, lo)
                     IN  Out(moved.self, Ok(decode(instr, moved.self.quirks)))))

\* [self, res |-> Result<DecodedInstruction, InterpreterErr>]
fetch_next_instruction(self) ==
    Try(self, read_mem(self, self.pc), LAMBDA hi :
        LET next == CheckedAdd(self.pc, 1, U16)
        IN  IF next.tag # "Ok" THEN Out(self, Panic)
            ELSE Try(self, read_mem(self, next.val), LAMBDA lo :
                     LET moved == skip_next(self)
                         instr == BitOr((hi * 256) % U16, lo)
                     IN  IF moved.res.tag # "Ok" THEN moved
                         ELSE Out(moved.self, Ok(decode(instr, moved.self.quirks)))))

execute_instruction(self, decoded_instr) ==
    LET op == decoded_instr.opcode.op
        a == decoded_instr.opcode.args
    IN  CASE op = "OpCode00e0" -> execute_00e0(self)
          [] op = "OpCode00ee" -> execute_00ee(self)
          [] op = "OpCode1nnn" -> execute_1nnn(self, a[1])
          [] op = "OpCode2nnn" -> execute_2nnn(self, a[1])
          [] op = "OpCode3xnn" -> execute_3xnn(self, a[1], a[2])
          [] op = "OpCode4xnn" -> execute_4xnn(self, a[1], a[2])
          [] op = "OpCode5xy0" -> execute_5xy0(self, a[1], a[2])
          [] op = "OpCode6xnn" -> execute_6xnn(self, a[1], a[2])
          [] op = "OpCode7xnn" -> execute_7xnn(self, a[1], a[2])
          [] op = "OpCode8xy0" -> execute_8xy0(self, a[1], a[2])
          [] op = "OpCode8xy1" -> execute_8xy1(self, a[1], a[2])
          [] op = "OpCode8xy2" -> execute_8xy2(self, a[1], a[2])
          [] op = "OpCode8xy3" -> execute_8xy3(self, a[1], a[2])
          [] op = "OpCode8xy4" -> execute_8xy4(self, a[1], a[2])
          [] op = "OpCode8xy5" -> execute_8xy5(self, a[1], a[2])
          [] op = "OpCode8xy6" ->
               IF contains(self.quirks, QUIRK_8XY6)
               THEN execute_8xy6_quirk_mode(self, a[1], a[2])
               ELSE execute_8xy6(self, a[1])
          [] op = "OpCode8xy7" -> execute_8xy7(self, a[1], a[2])
          [] op = "OpCode8xye" ->
               IF contains(self.quirks, QUIRK_8XYE)
               THEN execute_8xye_quirk_mode(self, a[1], a[2])
               ELSE execute_8xye(self, a[1])
          [] op = "OpCode9xy0" -> execute_9xy0(self, a[1], a[2])
          [] op = "OpCodeAnnn" -> execute_annn(self, a[1])
          [] op = "OpCodeBnnn" -> execute_bnnn(self, a[1])
          [] op = "OpCodeCxnn" -> execute_cxnn(self, a[1], a[2])
          [] op = "OpCodeDxyn" -> execute_dxyn(self, a[1], a[2], a[3])
          [] op = "OpCodeEx9e" -> execute_ex9e(self, a[1])
          [] op = "OpCodeExa1" -> execute_exa1(self, a[1])
          [] op = "OpCodeFx07" -> execute_fx07(self, a[1])
          [] op = "OpCodeFx0a" -> execute_fx0a(self, a[1])
          [] op = "OpCodeFx15" -> execute_fx15(self, a[1])
          [] op = "OpCodeFx18" -> execute_fx18(self, a[1])
          [] op = "OpCodeFx1e" ->
               IF contains(self.quirks, QUIRK_FX1E)
               THEN execute_fx1e_quirk_mode(self, a[1])
               ELSE execute_fx1e(self, a[1])
          [] op = "OpCodeFx29" -> execute_fx29(self, a[1])
          [] op = "OpCodeFx33" -> execute_fx33(self, a[1])
          [] op = "OpCodeFx55" ->
               IF contains(self.quirks, QUIRK_FX55)
               THEN execute_fx55_quirk_mode(self, a[1])
               ELSE execute_fx55(self, a[1])
          [] op = "OpCodeFx65" ->
               IF contains(self.quirks, QUIRK_FX65)
               THEN execute_fx65_quirk_mode(self, a[1])
               ELSE execute_fx65(self, a[1])
          [] op = "OpCodeInvalid" -> Out(self, Err(InvalidOpcode(decoded_instr.instr)))

\* [self, res |-> Result<DecodedInstruction, InterpreterErr>]
step(self, tick_rate) ==
    Then(check_sound_timer(self, tick_rate), LAMBDA s1 :
        LET awaiting == is_awaiting_key_press(s1)
        IN  IF awaiting.res.tag # "Ok" THEN awaiting
            ELSE IF ~awaiting.res.val
            THEN LET fetched == fetch_next_instruction(awaiting.self)
                 IN  IF fetched.res.tag # "Ok" THEN fetched
                     ELSE LET opcode == fetched.res.val
                              executed == execute_instruction(fetched.self, opcode)
                          IN  IF executed.res.tag = "Ok"
                              THEN Out(executed.self, Ok(opcode))
                              ELSE executed
            ELSE Out(awaiting.self, Ok(DecodedInstruction_new)))

----------------------------------------------------------------------------
(* The driver: construction, a write of the public field quirks, then step  *)
(* calls, each after a write of the public field key_press                  *)

\* bound on the number of step calls of a behaviour
MaxSteps == 4

\* the tick rates the driver passes to step
TickRates == {60, 120}

\* the keys the driver presses (KeyCodes values)
Keys == {2, 10}

\* the quirk configurations the driver selects
QuirkConfigs == {QUIRK_8XY6 + QUIRK_8XYE + QUIRK_FX1E + QUIRK_FX55 + QUIRK_FX65}

\* the bytes the platform's random source hands out
RandomVals == {0, 165}

\* the interpreter as a record of its fields
Self ==
    [quirks |-> quirks, key_press |-> key_press, display_buffer |-> display_buffer,
     memory |-> memory, pc |-> pc, v_regs |-> v_regs, i_reg |-> i_reg,
     stack |-> stack, key_await_dest_reg |-> key_await_dest_reg,
     delay_timer |-> delay_timer, sound_timer |-> sound_timer,
     is_sound_playing |-> is_sound_playing, platform_adapter |-> platform_adapter]

\* the fields after a call that left the interpreter s
Becomes(s) ==
    /\ quirks' = s.quirks
    /\ key_press' = s.key_press
    /\ display_buffer' = s.display_buffer
    /\ memory' = s.memory
    /\ pc' = s.pc
    /\ v_regs' = s.v_regs
    /\ i_reg' = s.i_reg
    /\ stack' = s.stack
    /\ key_await_dest_reg' = s.key_await_dest_reg
    /\ delay_timer' = s.delay_timer
    /\ sound_timer' = s.sound_timer
    /\ is_sound_playing' = s.is_sound_playing
    /\ platform_adapter' = s.platform_adapter

\* a program image: the words of `prog` as big-endian bytes, then `fill`
\* bytes up to length len
Image(prog, fill, len) ==
    [i \in 1 .. len |->
        IF i <= 2 * Len(prog)
        THEN (IF i % 2 = 1 THEN prog[(i + 1) \div 2] \div 256 ELSE prog[i \div 2] % 256)
        ELSE fill]

\* Chip8Interpreter::new(MockPlatform::new(), image), in either build profile
InitFrom(images) ==
    \E image \in images, checks \in BOOLEAN :
        \E made \in {Chip8Interpreter_new(MockPlatform_new, image)} :
            /\ rom = image
            /\ overflow_checks = checks
            /\ new_result = (IF made.tag = "Ok" THEN Ok(Unit) ELSE made)
            /\ step_result = None
            /\ steps = 0
            /\ at_call = None
            /\ history = <<>>
            /\ IF made.tag = "Ok"
               THEN /\ quirks = made.val.quirks
                    /\ key_press = made.val.key_press
                    /\ display_buffer = made.val.display_buffer
                    /\ memory = made.val.memory
                    /\ pc = made.val.pc
                    /\ v_regs = made.val.v_regs
                    /\ i_reg = made.val.i_reg
                    /\ stack = made.val.stack
                    /\ key_await_dest_reg = made.val.key_await_dest_reg
                    /\ delay_timer = made.val.delay_timer
                    /\ sound_timer = made.val.sound_timer
                    /\ is_sound_playing = made.val.is_sound_playing
                    /\ platform_adapter = made.val.platform_adapter
               ELSE \* no interpreter was made
                    /\ quirks = None /\ key_press = None /\ display_buffer = None
                    /\ memory = None /\ pc = None /\ v_regs = None /\ i_reg = None
                    /\ stack = None /\ key_await_dest_reg = None
                    /\ delay_timer = None /\ sound_timer = None
                    /\ is_sound_playing = None /\ platform_adapter = None

\* an interpreter exists and its last step call, if any, returned
Live == new_result.tag = "Ok" /\ (step_result.tag = "Some" => step_result.val.tag # "Panic")

\* the word the next fetch would read, when both its bytes are in memory
NextWord == IF pc + 1 < MEM_SZ THEN memory[pc] * 256 + memory[pc + 1] ELSE 0

\* the driver sets or clears the current key, then calls step(tick_rate);
\* a CXNN draws its byte from the platform
StepOnce ==
    /\ \E key \in {None} \cup {Some(c) : c \in Keys}, tick_rate \in TickRates :
       \E random_val \in (IF NextWord \div 4096 = 12 THEN RandomVals
                          ELSE {platform_adapter.random_val}) :
       \E o \in {step([Self EXCEPT !.key_press = key,
                                    !.platform_adapter.random_val = random_val],
                       tick_rate)} :
              /\ Becomes(o.self)
              /\ step_result' = Some(o.res)
              /\ steps' = steps + 1
              /\ at_call' = Some([pc |-> pc, key_await_dest_reg |-> key_await_dest_reg,
                                  tick_rate |-> tick_rate])
    /\ UNCHANGED <<rom, new_result, overflow_checks, history>>

\* the driver calls step while the interpreter is usable, `limit` times at most
StepWithin(limit) ==
    /\ Live
    /\ steps < limit
    /\ StepOnce

Step == StepWithin(MaxSteps)

\* the driver configures the quirks of a fresh interpreter
SetQuirks ==
    /\ Live
    /\ steps = 0
    /\ \E q \in QuirkConfigs :
          /\ q # quirks
          /\ quirks' = q
    /\ UNCHANGED <<key_press, display_buffer, memory, pc, v_regs, i_reg, stack,
                   key_await_dest_reg, delay_timer, sound_timer, is_sound_playing,
                   platform_adapter, rom, new_result, step_result, steps, at_call,
                   overflow_checks, history>>

Next == Step \/ SetQuirks

----------------------------------------------------------------------------
(* The program images of the specifications                                *)

\* programs that wait for a key (FX0A), by what follows the wait
KeyWaitProgs ==
    { <<61706, 61959>>,            \* F10A F207
      <<61706, 24917>>,            \* F10A 6155
      <<61706>>,                   \* F10A
      <<61706, 62218>>,            \* F10A F30A
      <<61706, 8191>>,             \* F10A 1FFF
      <<61706, 238>>,              \* F10A 00EE
      <<25346, 62232, 61706, 28929>>, \* 6302 F318 F10A 7101
      <<61706, 57758>>,            \* F10A E19E
      <<65290, 32513>>,            \* FF0A 7F01
      <<61706, 25173>>,            \* F10A 6255
      <<61706, 41251>>             \* F10A A123
    }

\* programs that run into a fault
FaultProgs ==
    { <<>>,                        \* (empty)
      <<8191>>,                    \* 1FFF
      <<8190>>,                    \* 1FFE
      <<12287>>,                   \* 2FFF
      <<238>>,                     \* 00EE
      <<45055, 61781>>,            \* AFFF F155
      <<45054, 61747>>,            \* AFFE F133
      <<45055, 53522>>,            \* AFFF D112
      <<25087, 61737>>,            \* 61FF F129
      <<25087, 53521>>             \* 61FF D111
    }

\* one instruction of every opcode (and some invalid words), run after
\* V1 was loaded: 6105, then the word
OpcodeWords ==
    { 224, 4612, 8708, 12549, 16645, 20976, 28587, 29183,
      33264, 33265, 33266, 33267, 33268, 33269, 33270, 33271,
      33278, 37360, 41251, 45347, 49663, 53525, 57758, 57761,
      61703, 61717, 61720, 61726, 61737, 61747, 61781, 61797,
      20769, 33064, 37153, 57600, 61951, 291 }
\*   00E0 1204 2204 3105 4105 51F0 6FAB 71FF
\*   81F0 81F1 81F2 81F3 81F4 81F5 81F6 81F7
\*   81FE 91F0 A123 B123 C1FF D115 E19E E1A1
\*   F107 F115 F118 F11E F129 F133 F155 F165
\*   5121 8128 9121 E100 F1FF 0123

OpcodeProgs == { <<24837, w>> : w \in OpcodeWords }

\* the length of the longest image that fits
MaxRomLen == MEM_SZ - START_ADDR - 1

\* images at the size limit of Chip8Interpreter::new, and one byte and two
\* bytes beyond it; 8190 is 1FFE, 48 makes the words 3030 (SE V0, 0x30)
BoundaryImages ==
    { Image(p, fill, len) : p \in {<<>>, <<8190>>},
                            fill \in {0, 48},
                            len \in MaxRomLen - 1 .. MaxRomLen + 2 }

\* programs that start the sound timer
SoundProgs ==
    { <<61464, 61464>>,            \* F018 F018
      <<24833, 61720, 61720>>      \* 6101 F118 F118
    }

\* programs that load two registers and combine them
ArithmeticProgs ==
    { <<25087, 25091, 33060>>,     \* 61FF 6203 8124
      <<25086, 25089, 33060>>,     \* 61FE 6201 8124
      <<25008, 33044>>,            \* 61B0 8114
      <<28671, 24835, 36628>>      \* 6FFF 6103 8F14
    }

Programs ==
    KeyWaitProgs \cup FaultProgs \cup OpcodeProgs \cup SoundProgs \cup ArithmeticProgs

Images == { Image(p, 0, 2 * Len(p)) : p \in Programs } \cup BoundaryImages

Init == InitFrom(Images)

Spec == Init /\ [][Next]_vars

----------------------------------------------------------------------------
(* Vocabulary of the properties                                             *)

\* this transition is a call of step
StepCall == steps' = steps + 1

\* the latch is set and no key is pressed at this call of step (key_press'
\* is the key the driver set for the call)
Waiting == key_await_dest_reg.tag = "Some" /\ key_press'.tag = "None"

\* the latch is set and a key is pressed at this call of step
Resolving == key_await_dest_reg.tag = "Some" /\ key_press'.tag = "Some"

\* what the last call of step returned
Returned(r) == step_result = Some(r)

\* the word the big-endian bytes at addr and addr + 1 make
WordAt(addr) == memory[addr] * 256 + memory[addr + 1]

\* everything but the sound timer, the playing flag it drives and the
\* signals sent to the platform is as it was, pc and the latch included
OnlySoundTimerChanges ==
    /\ pc' = pc
    /\ v_regs' = v_regs
    /\ i_reg' = i_reg
    /\ memory' = memory
    /\ display_buffer' = display_buffer
    /\ stack' = stack
    /\ key_await_dest_reg' = key_await_dest_reg
    /\ delay_timer' = delay_timer
    /\ quirks' = quirks

----------------------------------------------------------------------------
(* Key wait                                                                 *)

\* C1: while the latch is set, pc is the address of the FX0A that set it plus
\* 2; and a step call made while the latch is set and no key is pressed
\* returns Ok with the empty DecodedInstruction (nothing was fetched) and
\* leaves pc, the registers, I, memory, the display, the call stack, the delay
\* timer and the latch as they were: only the sound timer, the playing flag
\* and the platform's signal count may change.
C1_WaitingStepOnlyTicksSound ==
    /\ [](key_await_dest_reg.tag = "Some" =>
             /\ pc >= 2
             /\ WordAt(pc - 2) = 61450 + 256 * key_await_dest_reg.val.dest_v_reg)
    /\ [][(StepCall /\ Waiting) =>
             /\ step_result' = Some(Ok(DecodedInstruction_new))
             /\ OnlySoundTimerChanges]_vars

\* a step call has just waited: the latch was set and no key was pressed
C1_Witness ==
    /\ at_call.tag = "Some"
    /\ at_call.val.key_await_dest_reg.tag = "Some"
    /\ key_press.tag = "None"
    /\ Returned(Ok(DecodedInstruction_new))
    /\ key_await_dest_reg.tag = "Some"

\* the interpreter as it stands once this call's key has been read by
\* is_awaiting_key_press: the key set for the call, its value in the
\* destination register, the latch cleared
Resolved ==
    [Self EXCEPT !.key_press = key_press',
                 !.v_regs[key_await_dest_reg.val.dest_v_reg] = key_press'.val,
                 !.key_await_dest_reg = None]

\* this call of step leaves the interpreter and returns as a call of step on
\* `from` does
StepsLike(from) ==
    \E tick_rate \in TickRates, random_val \in RandomVals \cup {platform_adapter.random_val} :
    \E o \in {step([from EXCEPT !.platform_adapter.random_val = random_val], tick_rate)} :
        /\ Self' = o.self
        /\ step_result' = Some(o.res)

\* C2 as stated: the step call that first sees a pressed key while waiting
\* writes the key into the destination register, clears the latch and
\* executes no instruction: pc is as it was.
C2_AsStated ==
    [][(StepCall /\ Resolving) =>
          /\ v_regs'[key_await_dest_reg.val.dest_v_reg] = key_press'.val
          /\ key_await_dest_reg' = None
          /\ pc' = pc]_vars

\* C2, amended: the step call that first sees a pressed key while waiting
\* puts the key's value (0..15) into the destination register, clears the
\* latch, and then fetches and executes the instruction that follows the
\* FX0A in that same call: the call ends as a step call of a machine that
\* is not waiting and already holds the key in the register does.
C2_ResolvingStepRunsTheNextInstruction ==
    [][(StepCall /\ Resolving) =>
          /\ key_press'.val \in 0 .. 15
          /\ StepsLike(Resolved)]_vars

\* a waiting machine saw a key: the call that read it has also executed the
\* instruction after the FX0A, and pc has moved past it
C2_Witness ==
    /\ at_call.tag = "Some"
    /\ at_call.val.key_await_dest_reg.tag = "Some"
    /\ key_press.tag = "Some"
    /\ key_await_dest_reg.tag = "None"
    /\ step_result.val.tag = "Ok"
    /\ step_result.val.val.opcode.op = "OpCodeFx07"
    /\ pc = at_call.val.pc + 2
    /\ v_regs[at_call.val.key_await_dest_reg.val.dest_v_reg] = key_press.val

\* the instruction transfers control or may skip: its handler writes pc
Branching(d) ==
    d.opcode.op \in {"OpCode00ee", "OpCode1nnn", "OpCode2nnn", "OpCode3xnn",
                     "OpCode4xnn", "OpCode5xy0", "OpCode9xy0", "OpCodeEx9e",
                     "OpCodeExa1"}

\* the registers the handler of instruction d writes, under quirks q
WrittenRegs(d, q) ==
    LET op == d.opcode.op
        a == d.opcode.args
    IN  CASE op \in {"OpCode6xnn", "OpCode7xnn", "OpCode8xy0", "OpCode8xy1",
                     "OpCode8xy2", "OpCode8xy3", "OpCodeCxnn", "OpCodeFx07"} -> {a[1]}
          [] op \in {"OpCode8xy4", "OpCode8xy5", "OpCode8xy6", "OpCode8xy7",
                     "OpCode8xye"} -> {a[1], 15}
          [] op = "OpCodeDxyn" -> {15}
          [] op = "OpCodeFx1e" -> IF contains(q, QUIRK_FX1E) THEN {15} ELSE {}
          [] op = "OpCodeFx65" -> 0 .. a[1]
          [] OTHER -> {}

\* the instruction that follows the FX0A the machine is waiting in
Following == decode(WordAt(pc), quirks)

\* C3 as stated: when the FX0A is followed by an instruction that neither
\* branches nor skips, then after the step call that first sees a pressed key
\* VX is the key, the latch is empty and pc is its value during the wait
\* plus 2.
C3_AsStated ==
    [][(StepCall /\ Resolving /\ pc + 1 < MEM_SZ /\ ~Branching(Following)) =>
          /\ v_regs'[key_await_dest_reg.val.dest_v_reg] = key_press'.val
          /\ key_await_dest_reg' = None
          /\ pc' = pc + 2]_vars

\* C3, amended: when the FX0A is followed by an instruction that neither
\* branches nor skips, is not itself an FX0A and does not write VX, then after
\* the step call that first sees a pressed key VX is the key, the latch is
\* empty and pc is its value during the wait plus 2.
C3_ResolvingStepLeavesKeyInVX ==
    [][(/\ StepCall /\ Resolving /\ pc + 1 < MEM_SZ
        /\ ~Branching(Following)
        /\ Following.opcode.op # "OpCodeFx0a"
        /\ key_await_dest_reg.val.dest_v_reg \notin WrittenRegs(Following, quirks)) =>
          /\ v_regs'[key_await_dest_reg.val.dest_v_reg] = key_press'.val
          /\ key_await_dest_reg' = None
          /\ pc' = pc + 2]_vars

\* the test's case: F10A, then F207; the key 0xA was read into V1 by the
\* call that also ran the F207
C3_Witness ==
    /\ at_call.tag = "Some"
    /\ at_call.val.key_await_dest_reg = Some(KeyAwaitOp(1))
    /\ key_press = Some(10)
    /\ Returned(Ok(decode(61959, quirks)))
    /\ v_regs[1] = 10
    /\ key_await_dest_reg = None
    /\ pc = at_call.val.pc + 2

\* C4: the latch is empty until the first step call; it becomes non-empty, or
\* changes its destination, only in a step call that returns Ok with an FX0A
\* whose X is the new destination; and once non-empty it stays as it is in
\* every transition but a step call at which a key is pressed.
C4_LatchSetOnlyByFx0aClearedOnlyByKey ==
    /\ [](steps = 0 => key_await_dest_reg = None)
    /\ [][key_await_dest_reg' # key_await_dest_reg =>
             /\ StepCall
             /\ key_await_dest_reg'.tag = "Some" =>
                   /\ step_result'.val.tag = "Ok"
                   /\ step_result'.val.val.opcode =
                          Op1("OpCodeFx0a", key_await_dest_reg'.val.dest_v_reg)
             /\ key_await_dest_reg.tag = "Some" => key_press'.tag = "Some"
             /\ key_await_dest_reg'.tag = "None" => key_await_dest_reg.tag = "Some"]_vars

\* an FX0A has just set the latch to its X
C4_Witness ==
    /\ key_await_dest_reg.tag = "Some"
    /\ at_call.tag = "Some"
    /\ at_call.val.key_await_dest_reg.tag = "None"
    /\ step_result.val.tag = "Ok"
    /\ step_result.val.val.opcode = Op1("OpCodeFx0a", key_await_dest_reg.val.dest_v_reg)

----------------------------------------------------------------------------
(* Faults                                                                   *)

\* the operands of a decoded instruction that index registers
RegisterOperands(d) ==
    LET op == d.opcode.op
        a == d.opcode.args
    IN  CASE op \in {"OpCode5xy0", "OpCode8xy0", "OpCode8xy1", "OpCode8xy2",
                     "OpCode8xy3", "OpCode8xy4", "OpCode8xy5", "OpCode8xy6",
                     "OpCode8xy7", "OpCode8xye", "OpCode9xy0", "OpCodeDxyn"} -> {a[1], a[2]}
          [] op \in {"OpCode00e0", "OpCode00ee", "OpCode1nnn", "OpCode2nnn",
                     "OpCodeAnnn", "OpCodeBnnn", "OpCodeInvalid"} -> {}
          [] OTHER -> {a[1]}

FetchesInvalid ==
    /\ StepCall
    /\ ~Waiting
    /\ pc + 1 < MEM_SZ
    /\ decode(WordAt(pc), quirks).opcode = OpCodeInvalid

\* C6 as stated: a step call that fetches a word decoding to the invalid
\* sentinel returns InvalidOpcode(w), w the big-endian word at the pc the
\* call began with; pc has advanced by 2 and everything else but the sound
\* timer is as it was.
C6_AsStated ==
    [][FetchesInvalid =>
          /\ step_result' = Some(Err(InvalidOpcode(WordAt(pc))))
          /\ pc' = pc + 2
          /\ v_regs' = v_regs
          /\ key_await_dest_reg' = key_await_dest_reg
          /\ i_reg' = i_reg /\ memory' = memory /\ display_buffer' = display_buffer
          /\ stack' = stack /\ delay_timer' = delay_timer /\ quirks' = quirks]_vars

\* C6, amended: a step call that fetches a word decoding to the invalid
\* sentinel returns InvalidOpcode(w), w the big-endian word at the pc the
\* call began with; pc has advanced by 2 and everything else but the sound
\* timer is as it was, except that a call which first saw the key of a
\* pending key wait has also put the key into the destination register and
\* cleared the latch.  The call returns (an error, not a panic), so the
\* next call fetches at pc + 2.
C6_InvalidOpcodeOnlyAdvancesPc ==
    [][FetchesInvalid =>
          /\ step_result' = Some(Err(InvalidOpcode(WordAt(pc))))
          /\ pc' = pc + 2
          /\ v_regs' = (IF Resolving THEN Resolved.v_regs ELSE v_regs)
          /\ key_await_dest_reg' = None
          /\ i_reg' = i_reg /\ memory' = memory /\ display_buffer' = display_buffer
          /\ stack' = stack /\ delay_timer' = delay_timer /\ quirks' = quirks]_vars

\* a step call has returned InvalidOpcode for the word it fetched
C6_Witness ==
    /\ step_result.tag = "Some"
    /\ step_result.val.tag = "Err"
    /\ step_result.val.err = InvalidOpcode(WordAt(at_call.val.pc))
    /\ pc = at_call.val.pc + 2

\* C7: a step call made with the latch empty and pc >= 4095 returns MemFault
\* (it does not panic) and leaves pc and everything else but the sound timer
\* as it was, so the same holds of the next call.
C7_FetchBeyondMemoryFaults ==
    [][(StepCall /\ key_await_dest_reg = None /\ pc >= MEM_SZ - 1) =>
          /\ step_result' = Some(Err(MemFault))
          /\ OnlySoundTimerChanges]_vars

\* two step calls in a row have faulted on the fetch at the end of memory
C7_Witness ==
    /\ Returned(Err(MemFault))
    /\ at_call.val.pc >= MEM_SZ - 1
    /\ at_call.val.key_await_dest_reg = None
    /\ pc = at_call.val.pc
    /\ steps >= 3

----------------------------------------------------------------------------
(* Construction                                                             *)

\* C8: Chip8Interpreter::new returns RomTooLarge exactly when the length of
\* the image plus 0x200 is at least 4096, and an interpreter otherwise.
C8_RomTooLargeIffImageReachesMemSz ==
    /\ new_result \in {Ok(Unit), Err(RomTooLarge)}
    /\ new_result = Err(RomTooLarge) <=> Len(rom) + 512 >= 4096

\* an image of 4096 - 0x200 bytes was refused
C8_Witness == new_result = Err(RomTooLarge) /\ Len(rom) = 4096 - 512

\* C9 as stated: an image of exactly 4096 - 0x200 bytes constructs, one of
\* 4096 - 0x200 + 1 bytes fails with RomTooLarge.
C9_AsStated ==
    /\ Len(rom) = 4096 - 512 => new_result = Ok(Unit)
    /\ Len(rom) = 4096 - 512 + 1 => new_result = Err(RomTooLarge)

\* C9, amended: an image of exactly 4096 - 0x200 - 1 (3583) bytes constructs,
\* one of 4096 - 0x200 (3584) bytes fails with RomTooLarge, as does one of
\* 4096 - 0x200 + 1 bytes.
C9_LargestImageIsOneShortOfTheWindow ==
    /\ Len(rom) = 4096 - 512 - 1 => new_result = Ok(Unit)
    /\ Len(rom) = 4096 - 512 => new_result = Err(RomTooLarge)
    /\ Len(rom) = 4096 - 512 + 1 => new_result = Err(RomTooLarge)

\* an image of 3583 bytes was accepted; its last byte is the last but one of
\* memory
C9_Witness ==
    /\ Len(rom) = 4096 - 512 - 1
    /\ new_result = Ok(Unit)
    /\ memory[4094] = rom[3583]
    /\ rom[3583] # 0

\* the state Chip8Interpreter::new is to leave, key_press and quirks apart
FreshButConfiguration ==
    /\ \A a \in 0 .. 4095 :
          memory[a] = (IF a < 80 THEN CHAR_TABLE[a + 1]
                       ELSE IF a >= 512 /\ a - 512 < Len(rom) THEN rom[a - 512 + 1]
                       ELSE 0)
    /\ pc = 512
    /\ DOMAIN v_regs = 0 .. 15
    /\ \A r \in 0 .. 15 : v_regs[r] = 0
    /\ i_reg = 0
    /\ snapshot(stack) = None
    /\ stack.top = -1
    /\ DOMAIN display_buffer = 0 .. 31
    /\ \A y \in 0 .. 31 : DOMAIN display_buffer[y] = 0 .. 63
    /\ \A y \in 0 .. 31, x \in 0 .. 63 : display_buffer[y][x] = 0
    /\ delay_timer.current_val = 0 /\ delay_timer.start_val = 0
    /\ sound_timer.current_val = 0 /\ sound_timer.start_val = 0
    /\ key_await_dest_reg = None
    /\ is_sound_playing = FALSE
    /\ platform_adapter.play_count = 0 /\ platform_adapter.pause_count = 0

\* C10: a successful construction leaves memory holding the glyph table at
\* 0..79, the image from 0x200 on and 0 elsewhere; pc = 0x200; registers and
\* I zero; the call stack empty; the display clear; both timers 0; the latch
\* empty; sound not playing; no key pressed and no quirk flag set.  All of
\* it but the key and the quirks, which the driver writes, stays so until
\* the first step call.
C10_ConstructionState ==
    /\ new_result.tag = "Ok" =>
          /\ FreshButConfiguration
          /\ key_press = None
          /\ quirks = 0
    /\ []((new_result.tag = "Ok" /\ steps = 0) => FreshButConfiguration)

\* an interpreter made from an image that fills memory up to the last byte
\* but one, before its first step
C10_Witness ==
    /\ new_result.tag = "Ok"
    /\ steps = 0
    /\ quirks = 0
    /\ Len(rom) = 3583
    /\ memory[512] = 31
    /\ memory[4094] = 48

----------------------------------------------------------------------------
(* A CallStack on its own: CallStack::new(size), then pushes and pops       *)

\* capacity of the CallStack driven on its own
StackCap == 3

\* the addresses its caller pushes
StackAddrs == {514, 768, 4095}

\* no interpreter takes part: only the object driven on its own has a value
NoInterpreter ==
    /\ quirks = None /\ key_press = None /\ display_buffer = None
    /\ memory = None /\ pc = None /\ v_regs = None /\ i_reg = None
    /\ key_await_dest_reg = None
    /\ sound_timer = None /\ is_sound_playing = None /\ platform_adapter = None
    /\ rom = <<>> /\ new_result = None
    /\ overflow_checks = FALSE

NoInterpreterStill ==
    UNCHANGED <<quirks, key_press, display_buffer, memory, pc, v_regs, i_reg,
                key_await_dest_reg, sound_timer, is_sound_playing,
                platform_adapter, rom, new_result, overflow_checks>>

\* CallStack::new(StackCap); history is the addresses pushed and not yet
\* popped, oldest first, at_call the method called last
StackInit ==
    /\ NoInterpreter
    /\ at_call = None
    /\ delay_timer = None
    /\ stack = CallStack_new(StackCap)
    /\ step_result = None
    /\ steps = 0
    /\ history = <<>>

\* stack.push(addr)
Push ==
    /\ \E addr \in StackAddrs :
       \E pushed \in {CallStack_push(stack, addr)} :
          /\ stack' = pushed.stack
          /\ step_result' = Some(pushed.res)
          /\ history' = (IF pushed.res.tag = "Ok" THEN Append(history, addr) ELSE history)
    /\ at_call' = Some("push")
    /\ NoInterpreterStill
    /\ UNCHANGED <<delay_timer, steps>>

\* stack.pop()
Pop ==
    /\ \E popped \in {CallStack_pop(stack)} :
          /\ stack' = popped.stack
          /\ step_result' = Some(popped.res)
          /\ history' = (IF popped.res.tag = "Ok"
                         THEN SubSeq(history, 1, Len(history) - 1) ELSE history)
    /\ at_call' = Some("pop")
    /\ NoInterpreterStill
    /\ UNCHANGED <<delay_timer, steps>>

StackNext == Push \/ Pop

StackSpec == StackInit /\ [][StackNext]_vars

\* this transition is a pop that handed out an address
Popped == stack'.top < stack.top

\* C11: whenever no more addresses are stored than the CallStack has room
\* for, a successful pop returns the address pushed last among those not yet
\* popped, and the stack holds exactly the addresses pushed and not yet
\* popped, in push order.
C11_PopReturnsLastPushed ==
    /\ [](Len(history) <= StackCap /\
          snapshot(stack) = (IF history = <<>> THEN None ELSE Some(history)))
    /\ [][Popped => step_result' = Some(Ok(history[Len(history)]))]_vars

\* a pop has handed out the older of two addresses, after the younger one
\* was popped and a third pushed and popped
C11_Witness ==
    /\ at_call = Some("pop")
    /\ step_result = Some(Ok(514))
    /\ history = <<4095>>
    /\ stack.arr[1] = 514
    /\ stack.arr[2] = 768

----------------------------------------------------------------------------
(* Subroutine calls: programs that nest calls to the capacity of the stack  *)

\* bound on the number of step calls of a behaviour of CallSpec
MaxCallSteps == 36

\* subroutines nested `depth` deep: 2204 1202, then subroutine k at
\* 0x200 + 4k is "call subroutine k + 1; return", and the innermost one is
\* just "return"
NestedCalls(depth) ==
    [i \in 1 .. 2 * depth + 1 |->
        IF i = 2 THEN 4610
        ELSE IF i = 2 * depth + 1 THEN 238
        ELSE IF i % 2 = 1 THEN 8192 + START_ADDR + 2 * (i + 1)
        ELSE 238]

CallProgs ==
    { <<8704>>,                    \* 2200: calls itself for ever
      <<8706, 238>>,               \* 2202 00EE: one return too many
      <<238, 8704>>,               \* 00EE 2200
      NestedCalls(2),
      NestedCalls(STACK_SZ),       \* fills the stack exactly
      NestedCalls(STACK_SZ + 1)    \* one call too deep
    }

CallInit == InitFrom({ Image(p, 0, 2 * Len(p)) : p \in CallProgs })

CallStep == StepWithin(MaxCallSteps)

CallNext == CallStep

CallSpec == CallInit /\ [][CallNext]_vars

\* this call of step fetches and dispatches an instruction of opcode op
Fetches(op) ==
    /\ StepCall
    /\ ~Waiting
    /\ pc + 1 < MEM_SZ
    /\ decode(WordAt(pc), quirks).opcode.op = op

\* the addresses a CallStack holds, oldest first
Stored(cs) == [i \in 1 .. cs.top + 1 |-> cs.arr[i - 1]]

\* C12: the call stack never holds fewer than 0 or more than 16 addresses;
\* a 2NNN executed with 16 addresses stored returns CallStackOverflow and a
\* 00EE executed with none stored returns CallStackEmpty, and either leaves
\* the stack as it was and pc at the address after the instruction.
C12_DepthWithinCapacityFaultsLeaveStack ==
    /\ [](new_result.tag = "Ok" =>
            /\ Len(Stored(stack)) \in 0 .. 16
            /\ DOMAIN stack.arr = 0 .. 15)
    /\ [][(Fetches("OpCode2nnn") /\ Len(Stored(stack)) = 16) =>
            /\ step_result' = Some(Err(CallStackOverflow))
            /\ stack' = stack
            /\ pc' = pc + 2]_vars
    /\ [][(Fetches("OpCode00ee") /\ Len(Stored(stack)) = 0) =>
            /\ step_result' = Some(Err(CallStackEmpty))
            /\ stack' = stack
            /\ pc' = pc + 2]_vars

\* the 17th nested call has failed
C12_Witness ==
    /\ Returned(Err(CallStackOverflow))
    /\ steps = 17
    /\ Len(Stored(stack)) = 16
    /\ pc = at_call.val.pc + 2

\* C13: a 2NNN executed with room on the stack pushes the address after the
\* call and sets pc to NNN; a 00EE executed with an address stored sets pc
\* to the newest stored address and removes it; so a return executed right
\* after a call leaves pc at the address after the call and the stack
\* holding what it held before the call.
C13_CallThenReturnRestores ==
    /\ [][(Fetches("OpCode2nnn") /\ Len(Stored(stack)) < 16) =>
            /\ step_result'.val.tag = "Ok"
            /\ Stored(stack') = Append(Stored(stack), pc + 2)
            /\ pc' = WordAt(pc) % 4096
            /\ LET back == execute_00ee(Self')
               IN  /\ back.res = Ok(Unit)
                   /\ back.self.pc = pc + 2
                   /\ Stored(back.self.stack) = Stored(stack)]_vars
    /\ [][(Fetches("OpCode00ee") /\ Len(Stored(stack)) > 0) =>
            /\ step_result'.val.tag = "Ok"
            /\ pc' = stack.arr[stack.top]
            /\ Stored(stack') = SubSeq(Stored(stack), 1, Len(Stored(stack)) - 1)]_vars

\* the innermost of 16 nested subroutines has returned to the address after
\* its call
C13_Witness ==
    /\ new_result.tag = "Ok"
    /\ steps = 17
    /\ Len(Stored(stack)) = 15
    /\ step_result.val.tag = "Ok"
    /\ WordAt(at_call.val.pc) = 238
    /\ pc >= 2
    /\ WordAt(pc - 2) = 8192 + at_call.val.pc

----------------------------------------------------------------------------
(* A Timer on its own: Timer::new(), then sets and ticks                    *)

\* bound on the number of ticks between two sets
MaxTicks == 360

\* the values its caller sets
TimerVals == {0, 2, 120, 255}

\* the tick rates its caller passes
TimerRates == {30, 60, 90, 180}

\* the rates of the ticks since the last set: none yet, one rate, or several
\* (then all of TimerRates stands for them)
RatesWith(rates, tick_rate) ==
    IF rates \subseteq {tick_rate} THEN {tick_rate} ELSE TimerRates

\* Timer::new(); history is the number of ticks since the timer was last set
\* (or made) and the rates they were made at, step_result the value the last
\* tick returned, at_call the timer that tick was made on
TimerInit ==
    /\ NoInterpreter
    /\ stack = None
    /\ delay_timer = Timer_new
    /\ step_result = None
    /\ at_call = None
    /\ steps = 0
    /\ history = [n |-> 0, rates |-> {}]

\* timer.set(val)
Set ==
    /\ \E val \in TimerVals : delay_timer' = Timer_set(delay_timer, val)
    /\ history' = [n |-> 0, rates |-> {}]
    /\ step_result' = None
    /\ at_call' = None
    /\ NoInterpreterStill
    /\ UNCHANGED <<stack, steps>>

\* timer.tick(tick_rate)
Tick ==
    /\ history.n < MaxTicks
    /\ \E tick_rate \in TimerRates :
          /\ delay_timer' = Timer_tick(delay_timer, tick_rate)
          /\ history' = [n |-> history.n + 1,
                         rates |-> RatesWith(history.rates, tick_rate)]
    /\ step_result' = Some(delay_timer'.current_val)
    /\ at_call' = Some(delay_timer)
    /\ NoInterpreterStill
    /\ UNCHANGED <<stack, steps>>

TimerNext == Set \/ Tick

TimerSpec == TimerInit /\ [][TimerNext]_vars

\* the larger of two numbers
Max(a, b) == IF a >= b THEN a ELSE b

\* the ticks since the last set were all made at tick_rate
AllTicksAt(tick_rate) == history.n > 0 /\ history.rates = {tick_rate}

\* C14: after set(v), n consecutive calls tick(60 * k), k >= 1, leave the
\* current value at max(0, v - floor(n / k)), and each returns that value,
\* whatever ticks were made before the set; so set(120) followed by calls of
\* tick(180) gives 120 after 2 calls, 119 after 3 and 0 after 360.
C14_CountdownAtMultiplesOf60 ==
    \A tick_rate \in {r \in TimerRates : r >= 60 /\ r % 60 = 0} :
        AllTicksAt(tick_rate) =>
            /\ delay_timer.current_val =
                  Max(0, delay_timer.start_val - history.n \div (tick_rate \div 60))
            /\ step_result = Some(delay_timer.current_val)
            /\ (delay_timer.start_val = 120 /\ tick_rate = 180) =>
                  /\ history.n = 2 => delay_timer.current_val = 120
                  /\ history.n = 3 => delay_timer.current_val = 119
                  /\ history.n = 360 => delay_timer.current_val = 0

\* 360 calls of tick(180) after set(120) have just brought the timer to 0
C14_Witness ==
    /\ AllTicksAt(180)
    /\ history.n = 360
    /\ delay_timer.start_val = 120
    /\ delay_timer.current_val = 0
    /\ at_call.val.current_val = 1

\* this transition is a call of tick
TickCall == history'.n = history.n + 1

\* C15: whatever the rates of the ticks, the current value stays in 0..255;
\* a tick lowers it by 1 or leaves it, and returns the value it leaves; a
\* tick of a timer at 0 leaves it at 0 and returns 0.
C15_TickNeverRaisesNorGoesBelowZero ==
    /\ [](delay_timer.current_val \in 0 .. 255)
    /\ [][TickCall =>
            /\ delay_timer'.current_val \in
                  {delay_timer.current_val, delay_timer.current_val - 1}
            /\ step_result' = Some(delay_timer'.current_val)
            /\ delay_timer'.start_val = delay_timer.start_val
            /\ delay_timer.current_val = 0 =>
                  delay_timer'.current_val = 0 /\ step_result' = Some(0)]_vars

\* a timer that ticks at several rates brought from 2 to 0 has been ticked
\* again
C15_Witness ==
    /\ history.rates = TimerRates
    /\ delay_timer.start_val = 2
    /\ at_call.tag = "Some"
    /\ at_call.val.current_val = 0
    /\ step_result = Some(0)

\* C16 as stated: after set(v), n consecutive calls tick(r), r >= 60, leave
\* the current value at max(0, v - floor(60 * n / r)), also when r is not a
\* multiple of 60.
C16_AsStated ==
    \A tick_rate \in {r \in TimerRates : r >= 60} :
        AllTicksAt(tick_rate) =>
            delay_timer.current_val =
                Max(0, delay_timer.start_val - (60 * history.n) \div tick_rate)

----------------------------------------------------------------------------
(* The timers of the interpreter                                            *)

\* the step call of this transition was made with tick_rate
CalledAt(tick_rate) == StepCall /\ at_call'.val.tick_rate = tick_rate

\* C17 as stated, for the tick rate 60 (k = 1): every step call that returns
\* and does not execute FX15 lowers a delay timer above 0 by one, whatever
\* it executes, so that n calls after FX15 set v the timer is at
\* max(0, v - n); FX07 leaves in VX the value the timer has after the call.
C17_AsStated ==
    [][(CalledAt(60) /\ ~Fetches("OpCodeFx15") /\ step_result'.val.tag # "Panic") =>
          /\ delay_timer'.current_val = Max(0, delay_timer.current_val - 1)
          /\ Fetches("OpCodeFx07") =>
                v_regs'[get_n2(WordAt(pc))] = delay_timer'.current_val]_vars

\* the sound timer as the tick of this step call leaves it
Ticked == Timer_tick(sound_timer, at_call'.val.tick_rate)

\* the tick of this step call finds the sound timer at 0 while sound plays
StopsSound == Ticked.current_val = 0 /\ is_sound_playing

\* this step call executes an FX18
StartsSound == Fetches("OpCodeFx18") /\ step_result'.val.tag = "Ok"

\* C18: a step call that executes FX18 sets the sound timer to VX, signals
\* play_sound once and leaves the playing flag set; no other step call
\* signals play_sound.  A step call signals pause_sound once, and clears the
\* flag, when the value its tick of the sound timer returns is 0 while the
\* flag is set, and does not signal it otherwise; so pause_sound is never
\* signalled twice without a play_sound between, and never more often than
\* play_sound.
C18_PlayOnFx18PauseOnceAtZero ==
    /\ [](new_result.tag = "Ok" =>
            /\ platform_adapter.pause_count <= platform_adapter.play_count
            /\ is_sound_playing =>
                  platform_adapter.pause_count < platform_adapter.play_count)
    /\ [][StepCall =>
            /\ platform_adapter'.pause_count =
                  platform_adapter.pause_count + (IF StopsSound THEN 1 ELSE 0)
            /\ IF StartsSound
               THEN /\ sound_timer' = Timer_set(Ticked, v_regs'[get_n2(WordAt(pc))])
                    /\ platform_adapter'.play_count = platform_adapter.play_count + 1
                    /\ is_sound_playing' = TRUE
               ELSE /\ sound_timer' = Ticked
                    /\ platform_adapter'.play_count = platform_adapter.play_count
                    /\ is_sound_playing' = (is_sound_playing /\ ~StopsSound)]_vars

\* sound was started, stopped, started again by the same step call that
\* stopped it, and stopped again
C18_Witness ==
    /\ new_result.tag = "Ok"
    /\ platform_adapter.play_count = 2
    /\ platform_adapter.pause_count = 2
    /\ is_sound_playing = FALSE
    /\ steps = 3

----------------------------------------------------------------------------
(* Sound playback under a driver that keeps calling step                    *)

\* the step calls the driver makes whether or not sound plays
MaxSoundSteps == 3

\* bound on the number of times a behaviour starts the sound
MaxPlays == 3

\* programs that start the sound and then loop, wait for a key, fault or
\* start it again
PlaybackProgs ==
    { <<25346, 62232, 4612>>,      \* 6302 F318 1204
      <<25346, 62232, 61706>>,     \* 6302 F318 F10A
      <<25346, 62232, 8191>>,      \* 6302 F318 1FFF
      <<25346, 62232>>,            \* 6302 F318, then invalid words
      <<25347, 62232, 4610>>,      \* 6303 F318 1202
      <<61464, 238>>               \* F018 00EE
    }

SoundInit == InitFrom({ Image(p, 0, 2 * Len(p)) : p \in PlaybackProgs })

\* the next instruction, if one is executed, is an FX18
NextIsFx18 == decode(NextWord, quirks).opcode.op = "OpCodeFx18"

\* the driver makes MaxSoundSteps step calls and goes on calling step for as
\* long as sound plays
MayCall ==
    /\ Live
    /\ steps < MaxSoundSteps \/ is_sound_playing
    /\ NextIsFx18 => platform_adapter.play_count < MaxPlays

SoundStep == MayCall /\ StepOnce

SoundNext == SoundStep

\* the driver does not stop calling step while it may call it: step returns
\* from every state, so SoundStep is enabled exactly when MayCall holds, and
\* the transitions that are step calls are those that count a step
SoundSpec ==
    SoundInit /\ [][SoundNext]_vars /\ WF_steps(MayCall /\ steps' = steps + 1)

\* C19: every step call ticks the sound timer exactly once, before anything
\* else, whether it executes an instruction, waits for a key or returns a
\* fault; and if the driver keeps calling step, sound that plays is
\* eventually stopped unless an FX18 comes to be executed first.
C19_EveryStepTicksSoundUntilStopped ==
    /\ [][StepCall =>
            \/ sound_timer' = Ticked
            \/ StartsSound /\ sound_timer'.count_ticks = 0]_vars
    /\ (is_sound_playing = TRUE) ~> (is_sound_playing = FALSE \/ NextIsFx18)

\* sound was stopped by a step call that was waiting for a key, made after
\* the driver's other calls
C19_Witness ==
    /\ new_result.tag = "Ok"
    /\ key_await_dest_reg.tag = "Some"
    /\ is_sound_playing = FALSE
    /\ platform_adapter.pause_count = 1
    /\ steps > MaxSoundSteps
    /\ step_result = Some(Ok(DecodedInstruction_new))

----------------------------------------------------------------------------
(* Arithmetic                                                               *)

\* the registers the instruction of this step call finds: those of the
\* interpreter, with the key in place when the call first reads the key of a
\* pending wait
RegsFound == IF Resolving THEN Resolved.v_regs ELSE v_regs

----------------------------------------------------------------------------
(* The instructions one by one: short programs that load the operands with  *)
(* 6XNN and ANNN and execute the instruction under test, with the quirks    *)
(* off or all on.                                                           *)

MaxInstrSteps == 5

SubtractProgs ==
    { <<24837, 25091, 33061, 33063, 33061>>,   \* 6105 6203 8125 8127 8125
      <<24839, 25095, 33061, 33303, 33063>>,   \* 6107 6207 8125 8217 8127
      <<24839, 25095, 33063, 33269, 33045>>,   \* 6107 6207 8127 81F5 8115
      <<28419, 24837, 36629, 36631>>           \* 6F03 6105 8F15 8F17
    }

AddImmediateProgs ==
    { <<28423, 25087, 28930, 28933, 29177>>,   \* 6F07 61FF 7102 7105 71F9
      <<28423, 32514>>                         \* 6F07 7F02
    }

ShiftProgs ==
    { <<24837, 25218, 33062, 33070, 33302>>,   \* 6105 6282 8126 812E 8216
      <<28419, 24961, 33278, 33270, 33046>>,   \* 6F03 6181 81FE 81F6 8116
      <<28419, 36630, 36638>>                  \* 6F03 8F16 8F1E
    }

SkipProgs ==
    { <<24837, 12549, 0, 12550, 16645>>,       \* 6105 3105 0000 3106 4105
      <<24837, 16646, 0, 20768, 37152>>,       \* 6105 4106 0000 5120 9120
      <<24837, 25093, 20768, 0, 37152>>        \* 6105 6205 5120 0000 9120
    }

RegisterDumpProgs ==
    { <<24593, 24866, 25139, 41728, 61781>>,   \* 6011 6122 6233 A300 F155
      <<25207, 40960, 61797, 61541>>,          \* 6277 A000 F165 F065
      <<24593, 24866, 45054, 61781, 61797>>,   \* 6011 6122 AFFE F155 F165
      <<28417, 24578, 41728, 65365, 65381>>    \* 6F01 6002 A300 FF55 FF65
    }

\* the font table at address 0 serves as sprite data: F0 90 90 90 F0 is the
\* glyph of 0, 20 60 20 20 70 the glyph of 1
DrawProgs ==
    { <<24837, 25091, 40960, 53541, 53541>>,   \* 6105 6203 A000 D125 D125
      <<40960, 53253, 40965, 53253>>,          \* A000 D005 A005 D005
      <<40960, 53253, 40965, 24833, 53265>>,   \* A000 D005 A005 6101 D011
      <<24892, 25118, 40960, 53541, 53541>>,   \* 613C 621E A000 D125 D125
      <<28418, 40960, 57109, 53536>>,          \* 6F02 A000 DF15 D120
      <<25082, 40960, 53525, 53525>>,          \* 61FA A000 D115 D115
      <<25086, 40960, 53269, 53269>>,          \* 61FE A000 D015 D015
      <<45055, 53266>>,                        \* AFFF D012
      <<40960, 53253, 224>>,                   \* A000 D005 00E0
      <<25148, 40960, 53765, 224>>,            \* 623C A000 D205 00E0
      <<40960, 53253, 61706, 224>>             \* A000 D005 F10A 00E0
    }

DecimalProgs ==
    { <<25086, 41728, 61747>>,                 \* 61FE A300 F133
      <<24988, 41728, 61747, 61491>>,          \* 619C A300 F133 F033
      <<24839, 45053, 61747>>                  \* 6107 AFFD F133
    }

GlyphProgs ==
    { <<24846, 61737>>,                        \* 610E F129
      <<24883, 61737>>,                        \* 6133 F129
      <<24884, 61737>>,                        \* 6134 F129
      <<25087, 61737>>                         \* 61FF F129
    }

\* dumps and loads that run into the end of memory, or start beyond it
MemoryEndProgs ==
    { <<24593, 24866, 25139, 45054, 62037>>,   \* 6011 6122 6233 AFFE F255
      <<24593, 24866, 25139, 45054, 62053>>,   \* 6011 6122 6233 AFFE F265
      <<24831, 45055, 61470, 61525, 61541>>,   \* 60FF AFFF F01E F055 F065
      <<25086, 45054, 61747>>,                 \* 61FE AFFE F133
      <<24833, 45053, 61747, 45055, 53250>>    \* 6101 AFFD F133 AFFF D002
    }

\* arithmetic with VF as the destination register
FlagDestinationProgs ==
    { <<28671, 24835, 36628, 36628>>,          \* 6FFF 6103 8F14 8F14
      <<28422, 36630, 36638>>                  \* 6F06 8F16 8F1E
    }

\* skips on the key held at the call: key 2, key A or none
KeySkipProgs ==
    { <<24834, 57758, 0, 57761>>,              \* 6102 E19E 0000 E1A1
      <<24834, 57761, 0, 57758>>,              \* 6102 E1A1 0000 E19E
      <<24837, 57758, 57761>>                  \* 6105 E19E E1A1
    }

\* programs that store an instruction in the last word of memory, 0xFFE, and
\* jump to it: 4000 (SNE V0, 0x00, with V0 = 0x40) and 2200 (CALL 0x200)
LastWordProgs ==
    { <<24640, 45054, 61525, 8190>>,           \* 6040 AFFE F055 1FFE
      <<24610, 45054, 61525, 8190>>            \* 6022 AFFE F055 1FFE
    }

InstrProgs ==
    SubtractProgs \cup AddImmediateProgs \cup ShiftProgs \cup SkipProgs
        \cup RegisterDumpProgs \cup DrawProgs \cup DecimalProgs \cup GlyphProgs
        \cup MemoryEndProgs \cup FlagDestinationProgs \cup KeySkipProgs
        \cup LastWordProgs

InstrInit == InitFrom({ Image(p, 0, 2 * Len(p)) : p \in InstrProgs })

InstrStep == StepWithin(MaxInstrSteps)

InstrNext == InstrStep \/ SetQuirks

InstrSpec == InstrInit /\ [][InstrNext]_vars

\* the X and Y digits of the instruction this call of step fetches
OperandX == get_n2(WordAt(pc))

OperandY == get_n3(WordAt(pc))

\* the registers after VX and VF are written
RegsWith(x, val, flag) ==
    [r \in 0 .. 15 |-> IF r = x THEN val ELSE IF r = 15 THEN flag ELSE RegsFound[r]]

C22_AddImmediateKeepsFlag ==
    [][(Fetches("OpCode7xnn") /\ OperandX # 15) =>
          /\ step_result'.val.tag = "Ok"
          /\ v_regs' = [RegsFound EXCEPT
                          ![OperandX] = (RegsFound[OperandX] + get_nn(WordAt(pc))) % 256]
          /\ i_reg' = i_reg
          /\ memory' = memory
          /\ display_buffer' = display_buffer
          /\ stack' = stack
      ]_vars

\* 6F07 61FF 7102 has run: 0xFF + 0x02 left 0x01 in V1 and VF is still 7
C22_Witness ==
    /\ new_result.tag = "Ok"
    /\ steps = 3
    /\ step_result.val.tag = "Ok"
    /\ WordAt(at_call.val.pc) = 28930
    /\ v_regs[1] = 1
    /\ v_regs[15] = 7

\* the register a shift takes its operand from, by the quirk flag the
\* interpreter holds when step is called
ShiftSource(quirk) == IF contains(quirks, quirk) THEN OperandY ELSE OperandX

\* C23: with X # 0xF the shifts take their operand by the quirk flags held at
\* the call.  Flag off: 8XY6 leaves bit 0 of VX in VF and VX >> 1 in VX, 8XYE
\* leaves bit 7 of VX in VF and (VX << 1) mod 256 in VX, whatever VY holds.
\* Flag on: VY is the operand, and VY keeps its value when Y # X and Y # 0xF.
C23_ShiftsBySourceOfQuirk ==
    [][/\ (Fetches("OpCode8xy6") /\ OperandX # 15) =>
            LET val == RegsFound[ShiftSource(QUIRK_8XY6)]
            IN  /\ step_result'.val.tag = "Ok"
                /\ v_regs' = RegsWith(OperandX, val \div 2, val % 2)
       /\ (Fetches("OpCode8xye") /\ OperandX # 15) =>
            LET val == RegsFound[ShiftSource(QUIRK_8XYE)]
            IN  /\ step_result'.val.tag = "Ok"
                /\ v_regs' = RegsWith(OperandX, (val * 2) % 256, val \div 128)
      ]_vars

\* 6105 6282 8126 812E has run with the quirks on: V2 = 0x82 shifted left
\* leaves 0x04 in V1 and 1 in VF, and V2 is still 0x82
C23_Witness ==
    /\ new_result.tag = "Ok"
    /\ steps = 4
    /\ step_result.val.tag = "Ok"
    /\ WordAt(at_call.val.pc) = 33070
    /\ contains(quirks, QUIRK_8XYE)
    /\ v_regs[1] = 4
    /\ v_regs[2] = 130
    /\ v_regs[15] = 1

----------------------------------------------------------------------------
(* The index register driven past 0xFFFF: ANNN loads at most 0xFFF and FX1E *)
(* adds at most 0xFF, so the program is one long run of FX1E.               *)

MaxIndexSteps == 244

\* the number of F01E, with V0 = 0xFF and I = 0xFFF, that take I past 0xFFFF
AddsToWrap == (U16 - MEM_SZ) \div (U8 - 1) + 1

\* 6F07 60FF AFFF F01E F01E ...
IndexProg == <<28423, 24831, 45055>> \o [k \in 1 .. AddsToWrap |-> 61470]

IndexInit == InitFrom({ Image(IndexProg, 0, 2 * Len(IndexProg)) })

IndexStep == StepWithin(MaxIndexSteps)

IndexNext == IndexStep \/ SetQuirks

IndexSpec == IndexInit /\ [][IndexNext]_vars

\* C24: FX1E leaves (I + VX) mod 65536 in I with the quirk flag off or on.
\* Flag off: every register, VF included, keeps its value.  Flag on: VF is 1
\* when I + VX > 65535 and 0 otherwise, the other registers keep their values.
C24_AddToIndexWraps ==
    [][Fetches("OpCodeFx1e") =>
          LET sum == i_reg + RegsFound[OperandX]
          IN  /\ step_result'.val.tag = "Ok"
              /\ i_reg' = sum % 65536
              /\ v_regs' = IF contains(quirks, QUIRK_FX1E)
                           THEN [RegsFound EXCEPT ![15] = IF sum > 65535 THEN 1 ELSE 0]
                           ELSE RegsFound
      ]_vars

\* the last F01E of the run has taken I from 0xFF0F past 0xFFFF to 0x000E,
\* with the quirk on: VF is 1
C24_Witness ==
    /\ new_result.tag = "Ok"
    /\ steps = Len(IndexProg)
    /\ step_result.val.tag = "Ok"
    /\ WordAt(at_call.val.pc) = 61470
    /\ contains(quirks, QUIRK_FX1E)
    /\ i_reg = 14
    /\ v_regs[0] = 255
    /\ v_regs[15] = 1

----------------------------------------------------------------------------
(* Skips, register dumps and loads                                          *)

\* this call of step moves pc past the instruction it fetches, and past the
\* next one too when `skips` holds, and changes nothing the program can see
SkipsWhen(skips) ==
    /\ step_result'.val.tag = "Ok"
    /\ pc' = pc + (IF skips THEN 4 ELSE 2)
    /\ v_regs' = RegsFound
    /\ i_reg' = i_reg
    /\ memory' = memory
    /\ display_buffer' = display_buffer
    /\ stack' = stack

IndexAfter(quirk) ==
    IF contains(quirks, quirk) THEN i_reg + OperandX + 1 ELSE i_reg

\* C26: when I + X <= 4095, FX55 stores Vk at memory[I + k] for k in 0..X and
\* changes no other byte; FX65 loads memory[I + k] into Vk for k in 0..X and
\* changes no register above X.  With the quirk flag off I keeps its value,
\* with it on I becomes I + X + 1.
C26_DumpAndLoadRegisters ==
    [][/\ (Fetches("OpCodeFx55") /\ i_reg + OperandX <= 4095) =>
            /\ step_result'.val.tag = "Ok"
            /\ memory' = [a \in 0 .. 4095 |->
                            IF a >= i_reg /\ a <= i_reg + OperandX
                            THEN RegsFound[a - i_reg] ELSE memory[a]]
            /\ v_regs' = RegsFound
            /\ i_reg' = IndexAfter(QUIRK_FX55)
       /\ (Fetches("OpCodeFx65") /\ i_reg + OperandX <= 4095) =>
            /\ step_result'.val.tag = "Ok"
            /\ v_regs' = [r \in 0 .. 15 |->
                            IF r <= OperandX THEN memory[i_reg + r] ELSE RegsFound[r]]
            /\ memory' = memory
            /\ i_reg' = IndexAfter(QUIRK_FX65)
      ]_vars

\* 6011 6122 6233 A300 F155 has run with the quirks on: V0 and V1 are at
\* 0x300 and 0x301, the byte at 0x302 is untouched and I is 0x302
C26_Witness ==
    /\ new_result.tag = "Ok"
    /\ steps = 5
    /\ step_result.val.tag = "Ok"
    /\ WordAt(at_call.val.pc) = 61781
    /\ contains(quirks, QUIRK_FX55)
    /\ memory[768] = 17
    /\ memory[769] = 34
    /\ memory[770] = 0
    /\ v_regs[2] = 51
    /\ i_reg = 770

----------------------------------------------------------------------------
(* DXYN                                                                     *)

\* the row count of the DXYN this call of step fetches
OperandN == get_n4(WordAt(pc))

\* bit b, most significant first, of row r of the sprite at I
SpriteRowBit(r, b) == (memory[i_reg + r] \div 2 ^ (7 - b)) % 2

\* the pixel bit b of row r goes to
Column(b) == (RegsFound[OperandX] + b) % 64

Row(r) == (RegsFound[OperandY] + r) % 32

\* the rows of the sprite lie in memory
SpriteReadable == OperandN = 0 \/ i_reg + OperandN - 1 <= 4095

\* the pixels under the set bits of the sprite, as <<column, row>>
Covered ==
    { <<Column(b), Row(r)>> :
        <<r, b>> \in { rb \in (0 .. OperandN - 1) \X (0 .. 7) :
                         SpriteRowBit(rb[1], rb[2]) = 1 } }

\* the display with the pixels of `cov` flipped
Flipped(cov) ==
    [y \in 0 .. 31 |-> [x \in 0 .. 63 |->
        IF <<x, y>> \in cov THEN 1 - display_buffer[y][x] ELSE display_buffer[y][x]]]

\* no sum VX + b or VY + r of the draw passes 255
WithinByte ==
    \/ OperandN = 0
    \/ /\ RegsFound[OperandX] + 7 <= 255
       /\ RegsFound[OperandY] + OperandN - 1 <= 255

C28_AsStated ==
    [][(Fetches("OpCodeDxyn") /\ SpriteReadable) =>
          /\ step_result'.val.tag = "Ok"
          /\ \A cov \in {Covered} : display_buffer' = Flipped(cov)
      ]_vars

\* the 8 x N cells the sprite is drawn onto are all unset
AreaClear ==
    \A r \in 0 .. OperandN - 1, b \in 0 .. 7 : display_buffer[Row(r)][Column(b)] = 0

\* C29: the same DXYN executed twice in a row (X, Y # 0xF, same I and sprite
\* bytes) leaves the display as it was before the first draw; from a clear
\* area and a sprite with at least one set bit the first draw leaves VF = 0
\* and the sprite's pixels set, the second leaves VF = 1 and them cleared.
C29_DrawTwiceRestoresDisplay ==
    [][(/\ Fetches("OpCodeDxyn")
        /\ OperandX # 15
        /\ OperandY # 15
        /\ SpriteReadable
        /\ step_result'.val.tag = "Ok") =>
          \A again \in {execute_dxyn(Self', OperandX, OperandY, OperandN)} :
            \A cov \in {Covered} :
               /\ again.res = Ok(Unit)
               /\ again.self.display_buffer = display_buffer
               /\ again.self.i_reg = i_reg
               /\ again.self.memory = memory
               /\ (AreaClear /\ cov # {}) =>
                     /\ v_regs'[15] = 0
                     /\ again.self.v_regs[15] = 1
                     /\ \A c \in cov : /\ display_buffer'[c[2]][c[1]] = 1
                                       /\ again.self.display_buffer[c[2]][c[1]] = 0
      ]_vars

\* 6105 6203 A000 D125 D125 has run: the second draw of the glyph of 0 at
\* (5, 3) reported a collision and the display is blank again
C29_Witness ==
    /\ new_result.tag = "Ok"
    /\ steps = 5
    /\ step_result.val.tag = "Ok"
    /\ at_call.val.pc = START_ADDR + 8
    /\ WordAt(at_call.val.pc) = 53541
    /\ WordAt(at_call.val.pc - 2) = 53541
    /\ v_regs[1] = 5
    /\ v_regs[2] = 3
    /\ v_regs[15] = 1
    /\ \A y \in 0 .. 31, x \in 0 .. 63 : display_buffer[y][x] = 0

----------------------------------------------------------------------------
(* FX33                                                                     *)

\* C30: when I + 2 <= 4095, FX33 stores floor(VX / 100) at memory[I],
\* floor(VX / 10) mod 10 at memory[I + 1] and VX mod 10 at memory[I + 2], and
\* changes no other memory byte, no register and not I.
C30_StoresDecimalDigits ==
    [][(Fetches("OpCodeFx33") /\ i_reg + 2 <= 4095) =>
          LET vx == RegsFound[OperandX]
          IN  /\ step_result'.val.tag = "Ok"
              /\ memory' = [a \in 0 .. 4095 |->
                              IF a = i_reg THEN vx \div 100
                              ELSE IF a = i_reg + 1 THEN (vx \div 10) % 10
                              ELSE IF a = i_reg + 2 THEN vx % 10
                              ELSE memory[a]]
              /\ v_regs' = RegsFound
              /\ i_reg' = i_reg
      ]_vars

\* 61FE A300 F133 has run: 254 is stored as 2, 5, 4 from 0x300 on
C30_Witness ==
    /\ new_result.tag = "Ok"
    /\ steps = 3
    /\ step_result.val.tag = "Ok"
    /\ WordAt(at_call.val.pc) = 61747
    /\ v_regs[1] = 254
    /\ i_reg = 768
    /\ memory[768] = 2
    /\ memory[769] = 5
    /\ memory[770] = 4
    /\ memory[771] = 0

----------------------------------------------------------------------------
(* FX29                                                                     *)

\* C31 as stated: FX29 sets I to the base address of the glyph of the
\* character in VX: I = 5 * VX for VX in 0..15, and for every VX in 0..255
\* the step returns Ok, the multiplication does not overflow 8 bits and I
\* lies inside the glyph table (I <= 75).
C31_AsStated ==
    [][Fetches("OpCodeFx29") =>
          /\ step_result'.val.tag = "Ok"
          /\ i_reg' <= 75
          /\ RegsFound[OperandX] <= 15 => i_reg' = 5 * RegsFound[OperandX]
      ]_vars

----------------------------------------------------------------------------
(* opcode::decode on its own, over every word                               *)

\* every u16
AllWords == 0 .. U16 - 1

\* every QuirkFlags value
AllQuirkFlags ==
    0 .. QUIRK_8XY6 + QUIRK_8XYE + QUIRK_FX1E + QUIRK_FX55 + QUIRK_FX65

\* the low twelve bits of a word of each arm of decode that looks below the
\* prefix: 0E0, 0EE, 120, 19E, 1A1 and 107 .. 165
SampleTails == {224, 238, 288, 414, 417, 263, 266, 277, 280, 286, 297, 307, 341, 357}

\* the words decoded under every QuirkFlags value: all of prefix 8, the only
\* arms that read the flags, and a word of every other arm under each prefix
SampleWords ==
    { w \in AllWords : w \div 4096 = 8 \/ w % 4096 \in SampleTails }

\* the arguments of the calls of decode
DecodeInputs ==
    (AllWords \X {QUIRK_NONE, QUIRK_8XY6 + QUIRK_8XYE + QUIRK_FX1E + QUIRK_FX55 + QUIRK_FX65})
        \cup (SampleWords \X AllQuirkFlags)

\* history is the arguments of the call, step_result what it returned
DecodeInit ==
    /\ NoInterpreter
    /\ at_call = None
    /\ delay_timer = None
    /\ stack = None
    /\ step_result = None
    /\ steps = 0
    /\ \E input \in DecodeInputs :
          history = [instr |-> input[1], quirk_flags |-> input[2]]

\* decode(instr, quirk_flags)
Decode ==
    /\ at_call = None
    /\ step_result' = Some(decode(history.instr, history.quirk_flags))
    /\ at_call' = Some("decode")
    /\ NoInterpreterStill
    /\ UNCHANGED <<delay_timer, stack, steps, history>>

DecodeNext == Decode

DecodeSpec == DecodeInit /\ [][DecodeNext]_vars

\* the call of decode has returned
HasDecoded == at_call.tag = "Some"

\* the digits of a word, the most significant first, and its low byte
Digit1(w) == w \div 4096

Digit2(w) == (w \div 256) % 16

Digit3(w) == (w \div 16) % 16

Digit4(w) == w % 16

LowByte(w) == w % 256

\* the words the instruction set gives no meaning to
InvalidWord(w) ==
    \/ Digit1(w) = 0 /\ w # 224 /\ w # 238
    \/ Digit1(w) \in {5, 9} /\ Digit4(w) # 0
    \/ Digit1(w) = 8 /\ Digit4(w) \in {8, 9, 10, 11, 12, 13, 15}
    \/ Digit1(w) = 14 /\ LowByte(w) \notin {158, 161}
    \/ Digit1(w) = 15 /\ LowByte(w) \notin {7, 10, 21, 24, 30, 41, 51, 85, 101}

\* the variant a word with a meaning selects
VariantOf(w) ==
    CASE w = 224 -> "OpCode00e0"
      [] w = 238 -> "OpCode00ee"
      [] Digit1(w) = 1 -> "OpCode1nnn"
      [] Digit1(w) = 2 -> "OpCode2nnn"
      [] Digit1(w) = 3 -> "OpCode3xnn"
      [] Digit1(w) = 4 -> "OpCode4xnn"
      [] Digit1(w) = 5 -> "OpCode5xy0"
      [] Digit1(w) = 6 -> "OpCode6xnn"
      [] Digit1(w) = 7 -> "OpCode7xnn"
      [] Digit1(w) = 8 ->
           <<"OpCode8xy0", "OpCode8xy1", "OpCode8xy2", "OpCode8xy3", "OpCode8xy4",
             "OpCode8xy5", "OpCode8xy6", "OpCode8xy7", "", "", "", "", "", "",
             "OpCode8xye", "">>[Digit4(w) + 1]
      [] Digit1(w) = 9 -> "OpCode9xy0"
      [] Digit1(w) = 10 -> "OpCodeAnnn"
      [] Digit1(w) = 11 -> "OpCodeBnnn"
      [] Digit1(w) = 12 -> "OpCodeCxnn"
      [] Digit1(w) = 13 -> "OpCodeDxyn"
      [] Digit1(w) = 14 -> IF LowByte(w) = 158 THEN "OpCodeEx9e" ELSE "OpCodeExa1"
      [] OTHER ->
           CASE LowByte(w) = 7 -> "OpCodeFx07"
             [] LowByte(w) = 10 -> "OpCodeFx0a"
             [] LowByte(w) = 21 -> "OpCodeFx15"
             [] LowByte(w) = 24 -> "OpCodeFx18"
             [] LowByte(w) = 30 -> "OpCodeFx1e"
             [] LowByte(w) = 41 -> "OpCodeFx29"
             [] LowByte(w) = 51 -> "OpCodeFx33"
             [] LowByte(w) = 85 -> "OpCodeFx55"
             [] OTHER -> "OpCodeFx65"

\* C32: decode returns for every one of the 65,536 words, and returns the
\* invalid sentinel exactly for: prefix 0 other than 00E0 and 00EE; prefix 5
\* or 9 with a low nibble other than 0; prefix 8 with low nibble 8, 9, A, B,
\* C, D or F; prefix E with a low byte other than 9E and A1; prefix F with a
\* low byte other than 07, 0A, 15, 18, 1E, 29, 33, 55, 65.  Every other word
\* decodes to the variant its prefix and secondary discriminant select.
C32_DecodeTotalInvalidExactly ==
    HasDecoded =>
       /\ step_result.val.opcode.op = "OpCodeInvalid" <=> InvalidWord(history.instr)
       /\ ~InvalidWord(history.instr) =>
             step_result.val.opcode.op = VariantOf(history.instr)

\* FF9E has been decoded: prefix F has no sub-opcode 9E, so it is invalid
C32_Witness ==
    /\ HasDecoded
    /\ history.instr = 65438
    /\ step_result.val.opcode = OpCodeInvalid

\* the operands of a word, by the positions of its variant
OperandsOf(w) ==
    IF InvalidWord(w) \/ Digit1(w) = 0 THEN <<>>
    ELSE IF Digit1(w) \in {1, 2, 10, 11} THEN <<w % 4096>>
    ELSE IF Digit1(w) \in {3, 4, 6, 7, 12} THEN <<Digit2(w), LowByte(w)>>
    ELSE IF Digit1(w) \in {5, 8, 9} THEN <<Digit2(w), Digit3(w)>>
    ELSE IF Digit1(w) = 13 THEN <<Digit2(w), Digit3(w), Digit4(w)>>
    ELSE <<Digit2(w)>>

\* the word is an 8XY6 or an 8XYE
ShiftWord(w) == Digit1(w) = 8 /\ Digit4(w) \in {6, 14}

\* C33: for every word and every quirk configuration the decoded instr field
\* is the word, and the operands are taken by position (X = bits 8-11, Y =
\* bits 4-7, address = bits 0-11, byte = bits 0-7, nibble = bits 0-3), so
\* every register operand is below 16; variant and operands are those decoded
\* with no quirk set, and so is the mnemonic unless the word is an 8XY6 or an
\* 8XYE.
C33_OperandsByPositionWhateverQuirks ==
    HasDecoded =>
       /\ step_result.val.instr = history.instr
       /\ step_result.val.opcode.args = OperandsOf(history.instr)
       /\ \A plain \in {decode(history.instr, QUIRK_NONE)} :
             /\ step_result.val.opcode = plain.opcode
             /\ ~ShiftWord(history.instr) => step_result.val.mnemonic = plain.mnemonic

\* 8126 has been decoded with every quirk set: the operands are 1 and 2 as
\* without quirks, the mnemonic names V2 too
C33_Witness ==
    /\ HasDecoded
    /\ history.instr = 33062
    /\ history.quirk_flags = QUIRK_8XY6 + QUIRK_8XYE + QUIRK_FX1E + QUIRK_FX55 + QUIRK_FX65
    /\ step_result.val.opcode = Op2("OpCode8xy6", 1, 2)
    /\ step_result.val.mnemonic = "SHR V1, V2"

----------------------------------------------------------------------------
(* The quirk flags                                                          *)

\* the quirk flags, each with the variant it is about
QuirkTargets ==
    { <<QUIRK_8XY6, "OpCode8xy6">>, <<QUIRK_8XYE, "OpCode8xye">>,
      <<QUIRK_FX1E, "OpCodeFx1e">>, <<QUIRK_FX55, "OpCodeFx55">>,
      <<QUIRK_FX65, "OpCodeFx65">> }

\* this call of step ends as the same call does on an interpreter that
\* differs in `flag` only: same return value, same fields but for quirks
IgnoresFlag(flag) ==
    \E o \in {step([Self EXCEPT !.quirks = BitXor(quirks, flag),
                                !.key_press = key_press',
                                !.platform_adapter.random_val = platform_adapter'.random_val],
                   at_call'.val.tick_rate)} :
        /\ o.res = step_result'.val
        /\ [o.self EXCEPT !.quirks = quirks'] = Self'

\* C34: each of the five quirk flags alters one instruction only: a call of
\* step that does not execute the flag's own instruction (8XY6, 8XYE, FX1E,
\* FX55, FX65 respectively) leaves the same machine state and returns the same
\* success or failure with the flag set as with it clear, whatever the key,
\* the random byte and the other flags.
C34_FlagAltersOnlyItsInstruction ==
    [][StepCall =>
          \A qt \in QuirkTargets : ~Fetches(qt[2]) => IgnoresFlag(qt[1])]_vars

\* 6105 81F6 has run with every quirk set: the shift took VF as its operand,
\* and would have with any of the other four flags clear
C34_Witness ==
    /\ new_result.tag = "Ok"
    /\ steps = 2
    /\ step_result.val.tag = "Ok"
    /\ WordAt(at_call.val.pc) = 33270
    /\ quirks = QUIRK_8XY6 + QUIRK_8XYE + QUIRK_FX1E + QUIRK_FX55 + QUIRK_FX65
    /\ v_regs[1] = 0
    /\ v_regs[15] = 0

----------------------------------------------------------------------------
(* Faults                                                                   *)

\* C35: FX55 or FX65 executed with I <= 4095 < I + X returns MemFault after
\* committing the elements k = 0 .. 4095 - I (memory bytes for FX55,
\* registers for FX65); the other elements are untouched and I keeps its
\* value even with the quirk on.  With I > 4095 it returns MemFault and
\* nothing is written.
C35_BulkTransferFaultsPartway ==
    [][/\ (Fetches("OpCodeFx55") /\ i_reg <= 4095 /\ 4095 < i_reg + OperandX) =>
            /\ step_result'.val = Err(MemFault)
            /\ memory' = [a \in 0 .. 4095 |->
                            IF a >= i_reg THEN RegsFound[a - i_reg] ELSE memory[a]]
            /\ v_regs' = RegsFound
            /\ i_reg' = i_reg
       /\ (Fetches("OpCodeFx65") /\ i_reg <= 4095 /\ 4095 < i_reg + OperandX) =>
            /\ step_result'.val = Err(MemFault)
            /\ v_regs' = [r \in 0 .. 15 |->
                            IF r <= 4095 - i_reg THEN memory[i_reg + r] ELSE RegsFound[r]]
            /\ memory' = memory
            /\ i_reg' = i_reg
       /\ ((Fetches("OpCodeFx55") \/ Fetches("OpCodeFx65")) /\ i_reg > 4095) =>
            /\ step_result'.val = Err(MemFault)
            /\ memory' = memory
            /\ v_regs' = RegsFound
            /\ i_reg' = i_reg
      ]_vars

\* 6011 6122 6233 AFFE F265 has run with the quirks on: V0 and V1 were loaded
\* from 0xFFE and 0xFFF, V2 was not, the step returned MemFault and I is
\* still 0xFFE
C35_Witness ==
    /\ new_result.tag = "Ok"
    /\ steps = 5
    /\ step_result.val = Err(MemFault)
    /\ WordAt(at_call.val.pc) = 62053
    /\ contains(quirks, QUIRK_FX65)
    /\ v_regs[0] = 0
    /\ v_regs[1] = 0
    /\ v_regs[2] = 51
    /\ i_reg = 4094

\* C36 as stated: when the handler of an instruction other than FX55 and
\* FX65 returns a fault it has written nothing: registers, I, memory, display
\* and call stack are as before the call.  So FX33 at I = 4094 or 4095
\* returns MemFault with memory unchanged, and a DXYN whose sprite read
\* faults on a later row leaves display and VF unchanged.
C36_AsStated ==
    [][(/\ StepCall
        /\ ~Waiting
        /\ pc + 1 < MEM_SZ
        /\ decode(WordAt(pc), quirks).opcode.op \notin {"OpCodeFx55", "OpCodeFx65"}
        /\ step_result'.val.tag = "Err") =>
          /\ v_regs' = RegsFound
          /\ i_reg' = i_reg
          /\ memory' = memory
          /\ display_buffer' = display_buffer
          /\ stack' = stack
      ]_vars

----------------------------------------------------------------------------
(* VF as a destination                                                      *)

\* C37 as stated: after 8XY4, 8XY5, 8XY7, 8XY6 and 8XYE, in either quirk
\* mode, VF holds the instruction's flag (carry, not-borrow, shifted-out bit)
\* for every X and Y, X = 0xF included: the flag write takes precedence over
\* the result write.
C37_AsStated ==
    [][/\ Fetches("OpCode8xy4") =>
            v_regs'[15] = (IF RegsFound[OperandX] + RegsFound[OperandY] > 255 THEN 1 ELSE 0)
       /\ Fetches("OpCode8xy5") =>
            v_regs'[15] = (IF RegsFound[OperandX] < RegsFound[OperandY] THEN 0 ELSE 1)
       /\ Fetches("OpCode8xy7") =>
            v_regs'[15] = (IF RegsFound[OperandY] < RegsFound[OperandX] THEN 0 ELSE 1)
       /\ Fetches("OpCode8xy6") =>
            v_regs'[15] = RegsFound[ShiftSource(QUIRK_8XY6)] % 2
       /\ Fetches("OpCode8xye") =>
            v_regs'[15] = RegsFound[ShiftSource(QUIRK_8XYE)] \div 128
      ]_vars

----------------------------------------------------------------------------
(* Skips on the key                                                         *)

\* C38 as stated: EX9E skips the next instruction exactly when the key
\* pressed at the call equals VX; EXA1 skips exactly when VX does not equal
\* the key pressed, no key pressed at all included; so for every VX and key
\* state exactly one of the two skips, and neither alters a register.
C38_AsStated ==
    [][/\ Fetches("OpCodeEx9e") =>
            SkipsWhen(key_press' = Some(RegsFound[OperandX]))
       /\ Fetches("OpCodeExa1") =>
            SkipsWhen(key_press' # Some(RegsFound[OperandX]))
      ]_vars

----------------------------------------------------------------------------
(* The display                                                              *)

\* C39: the display buffer changes only in calls of step that execute 00E0
\* or DXYN; 00E0 sets all 64 x 32 cells to 0 and changes nothing else; every
\* other instruction, waiting call and failing fetch leaves the buffer as it
\* was; and in every reachable state each cell holds 0 or 1.
C39_DisplayChangesOnlyByClearAndDraw ==
    /\ [][display_buffer' # display_buffer =>
            /\ StepCall
            /\ Fetches("OpCode00e0") \/ Fetches("OpCodeDxyn")]_vars
    /\ [][Fetches("OpCode00e0") =>
            /\ step_result'.val.tag = "Ok"
            /\ \A y \in 0 .. 31, x \in 0 .. 63 : display_buffer'[y][x] = 0
            /\ v_regs' = RegsFound
            /\ i_reg' = i_reg
            /\ memory' = memory
            /\ stack' = stack]_vars
    /\ [](\A y \in 0 .. 31, x \in 0 .. 63 : display_buffer[y][x] \in {0, 1})

\* 623C A000 D205 00E0 has run: the glyph drawn across the right edge is gone
C39_Witness ==
    /\ new_result.tag = "Ok"
    /\ steps = 4
    /\ step_result.val.tag = "Ok"
    /\ WordAt(at_call.val.pc) = 224
    /\ WordAt(at_call.val.pc - 2) = 53765
    /\ v_regs[2] = 60
    /\ v_regs[15] = 0
    /\ \A y \in 0 .. 31, x \in 0 .. 63 : display_buffer[y][x] = 0

----------------------------------------------------------------------------
(* The program counter                                                      *)

\* the variants whose handlers assign or advance pc
MovesPc ==
    {"OpCode00ee", "OpCode1nnn", "OpCode2nnn", "OpCode3xnn", "OpCode4xnn",
     "OpCode5xy0", "OpCode9xy0", "OpCodeEx9e", "OpCodeExa1"}

\* C40: in every state reached from construction by calls of step, pc is at
\* most 0x1002 (4098) and every return address on the call stack at most
\* 0x1000, so no computation on pc (pc + 1 and pc += 2 in the fetch, pc += 2
\* in the skips) overflows 16 bits: no such step aborts.
C40_PcAndReturnAddressesBounded ==
    /\ [](new_result.tag = "Ok" =>
            /\ pc <= 4098
            /\ \A i \in 1 .. Len(Stored(stack)) : Stored(stack)[i] <= 4096)
    /\ [][(/\ StepCall
           /\ ~Waiting
           /\ pc + 1 < MEM_SZ
           /\ decode(WordAt(pc), quirks).opcode.op \in MovesPc) =>
             step_result'.val # Panic]_vars

\* 6040 AFFE F055 1FFE has run and then the 4000 stored at 0xFFE: the skip
\* leaves pc at 0x1002
C40_Witness ==
    /\ new_result.tag = "Ok"
    /\ steps = 5
    /\ step_result.val.tag = "Ok"
    /\ at_call.val.pc = 4094
    /\ WordAt(at_call.val.pc) = 16384
    /\ pc = 4098

====
